---- MODULE Spec2Model ----
(***************************************************************************)
(* ShiftWise: the subscription reconciler of subscriptions/views.py.       *)
(*                                                                         *)
(* The local database (Agency, Plan and Subscription rows) is the state.   *)
(* Every request handler is an action.  A webhook request run on its own   *)
(* is one atomic action (StripeWebhookPost); the same handler run while    *)
(* other requests are served is the pair WebhookBegin / WebhookCommit,     *)
(* which share the handler's load and save operators, the in-memory model  *)
(* instance being held in `inflight` between the two.                      *)
(*                                                                         *)
(* The billing provider is the environment: what stripe.Subscription       *)
(* .retrieve answers and what an event carries are inputs of the actions.  *)
(***************************************************************************)
EXTENDS Integers, Sequences, FiniteSets, TLC

VARIABLES
    agencies,       \* Agency rows (accounts.models.Agency)
    plans,          \* Plan rows (subscriptions.models.Plan)
    subscriptions,  \* Subscription rows, a sequence indexed by primary key
    inflight,       \* per worker: the model instance a handler holds before save()
    response,       \* what the last finished request did and answered
    now,            \* timezone.now()
    stripe,         \* the provider's subscriptions: what the views' calls changed
    request,        \* the interactive request being served, and its position
    shifts,         \* Shift rows (shifts.models.Shift)
    assignments     \* ShiftAssignment rows (shifts.models.ShiftAssignment)

vars == <<agencies, plans, subscriptions, inflight, response, now, stripe, request,
          shifts, assignments>>

---------------------------------------------------------------------------
(* Bounds of the model *)

\* Provider timestamps: period starts are 1..MaxTime, a checkout's period is
\* [t, t+1), a subscription object's current_period_end is MaxTime+2.
MaxTime == 1

\* Number of requests that may be between their read and their save at once.
MaxInflight == 1

\* Times of day a Shift may start or end: 1..MaxClock, 0 for a null field.
MaxClock == 10

---------------------------------------------------------------------------
(* Values *)

None == "None"

Workers == 1..MaxInflight

\* Provider customer ids; cus_x belongs to no Agency.
KnownCustomers == {"cus_1", "cus_2"}
CustomerIds == KnownCustomers \cup {"cus_x"}

\* Provider price ids; price_x belongs to no Plan.
KnownPrices == {"price_1", "price_2"}
PriceIds == KnownPrices \cup {"price_x"}

\* Provider subscription ids and the customer each belongs to at the provider.
SubIds == {"sub_1", "sub_2", "sub_3", "sub_x"}

Owner(sub) ==
    CASE sub = "sub_1" -> "cus_1"
      [] sub = "sub_2" -> "cus_1"
      [] sub = "sub_3" -> "cus_2"
      [] OTHER -> "cus_x"

\* Status strings the provider reports for a subscription that has not
\* ended, and for any subscription.
ProviderStatus == {"active", "past_due"}
AnyProviderStatus == ProviderStatus \cup {"canceled"}

Times == 1..MaxTime

EventTypes ==
    {"checkout.session.completed", "invoice.paid",
     "customer.subscription.deleted", "customer.subscription.updated",
     "customer.created"}

\* The part of the provider's world the requests of one specification are
\* drawn from: the subscription ids of checkout sessions (ids) and of
\* subscription objects (sids), period starts, and the current_period_end
\* values of subscription objects (0: the object has none; absent and 0 are
\* both falsy; else a period end later than any checkout's).
Wide ==
    [ids |-> SubIds, sids |-> SubIds \ {"sub_x"}, starts |-> Times,
     ends |-> {0, MaxTime + 2}, statuses |-> ProviderStatus]

\* Requests racing on the Subscription of one Agency, at one provider time.
Narrow ==
    [ids |-> {"sub_1", "sub_2"}, sids |-> {"sub_1", "sub_2"}, starts |-> {1},
     ends |-> {0, 2}, statuses |-> ProviderStatus]

\* Events about the one provider subscription of a subscribed Agency.
Single ==
    [ids |-> {"sub_1"}, sids |-> {"sub_1"}, starts |-> {1}, ends |-> {2},
     statuses |-> ProviderStatus]

\* What stripe.Subscription.retrieve answers: an error, or the subscription.
StripeError == [error |-> TRUE]

StripeSubscriptions(D) ==
    {[error |-> FALSE, price |-> p, status |-> st,
      current_period_start |-> t, current_period_end |-> t + 1] :
        p \in PriceIds, st \in D.statuses, t \in D.starts}

\* The object an event carries (event["data"]["object"]).
CheckoutSessions(D) == {[customer |-> Owner(s), subscription |-> s] : s \in D.ids}

SubscriptionObjects(D) ==
    [id : D.sids, status : D.statuses, current_period_end : D.ends,
     price : PriceIds]

DeletedObjects(D) == [id : D.sids]

Requests ==
    [payloadOk : BOOLEAN, sigOk : BOOLEAN, type : EventTypes]

NoResponse ==
    [type |-> None, status |-> 0, handler |-> None, returned |-> 0,
     outcome |-> None, log |-> None]

Idle == [kind |-> "idle"]

\* The provider's subscriptions as the interactive views see and change them:
\* whether each is active (listed, modifiable) and the price of its item.
InitStripe ==
    [s \in SubIds \ {"sub_x"} |->
        [active |-> TRUE, price |-> IF s = "sub_2" THEN "price_2" ELSE "price_1"]]

InitAgencies ==
    {[id |-> "a1", stripe_customer_id |-> "cus_1"],
     [id |-> "a2", stripe_customer_id |-> "cus_2"]}

InitPlans ==
    {[id |-> "p1", stripe_price_id |-> "price_1", price |-> 10, is_active |-> TRUE],
     [id |-> "p2", stripe_price_id |-> "price_2", price |-> 20, is_active |-> TRUE]}

Init ==
    /\ agencies = InitAgencies
    /\ shifts = {}
    /\ assignments = {}
    /\ plans = InitPlans
    /\ subscriptions = << >>
    /\ inflight = [w \in Workers |-> Idle]
    /\ response = NoResponse
    /\ now = 1
    /\ stripe = InitStripe
    /\ request = Idle

---------------------------------------------------------------------------
(* The ORM *)

\* Model.objects.get(...): the single matching row, else the exception raised.
Get(matches) ==
    IF matches = {} THEN [exc |-> "DoesNotExist", obj |-> None]
    ELSE IF Cardinality(matches) > 1
         THEN [exc |-> "MultipleObjectsReturned", obj |-> None]
         ELSE [exc |-> None, obj |-> CHOOSE m \in matches : TRUE]

\* Primary keys of the Subscription rows with the given provider subscription id.
ByStripeId(subs, sid) == {i \in DOMAIN subs : subs[i].stripe_subscription_id = sid}

\* agency.subscription: primary keys of the Subscription rows of an Agency.
ByAgency(subs, agency_id) == {i \in DOMAIN subs : subs[i].agency = agency_id}

UniqueAgency_Unchecked(subs, pk, row) == TRUE

\* The one-to-one constraint of Subscription.agency: no row other than `pk`
\* belongs to the row's Agency.
UniqueAgency(subs, pk, row) ==
    \A i \in DOMAIN subs : i # pk => subs[i].agency # row.agency

\* Model.full_clean(): the instance passes validation.
full_clean(subs, pk, row) == UniqueAgency(subs, pk, row)

save_AlwaysInserts(subs, pk, row) == [exc |-> None, subs |-> Append(subs, row)]

\* Model.save(): INSERT for a new instance (pk = 0), else UPDATE of every
\* field of row pk.  The storage raises IntegrityError on a second row of
\* an Agency.
save(subs, pk, row) ==
    IF ~UniqueAgency(subs, pk, row) THEN [exc |-> "Exception", subs |-> subs]
    ELSE IF pk = 0 THEN [exc |-> None, subs |-> Append(subs, row)]
    ELSE [exc |-> None, subs |-> [subs EXCEPT ![pk] = row]]

---------------------------------------------------------------------------
(* StripeWebhookView: the event handlers *)

\* A handler's read phase answers [exc, kind, pk, row]: the exception that
\* ended it, or the instance (primary key, 0 when new, and field values) it
\* is about to save.
Raised(exc) == [exc |-> exc, kind |-> None, pk |-> 0, row |-> None]

\* Subscription(agency=..., plan=..., ...): the new instance.
new_subscription_FixedStatus(agency_id, plan_id, session, retrieved) ==
    [agency |-> agency_id,
     plan |-> plan_id,
     stripe_subscription_id |-> session.subscription,
     is_active |-> TRUE,
     status |-> "active",
     current_period_start |-> retrieved.current_period_start,
     current_period_end |-> retrieved.current_period_end,
     is_expired |-> FALSE]

new_subscription(agency_id, plan_id, session, retrieved) ==
    [agency |-> agency_id,
     plan |-> plan_id,
     stripe_subscription_id |-> session.subscription,
     is_active |-> TRUE,
     status |-> retrieved.status,
     current_period_start |-> retrieved.current_period_start,
     current_period_end |-> retrieved.current_period_end,
     is_expired |-> FALSE]

\* The assignments to the existing instance.
update_subscription_KeepsFlag(row, plan_id, session, retrieved) ==
    [row EXCEPT
       !.plan = plan_id,
       !.stripe_subscription_id = session.subscription,
       !.status = retrieved.status,
       !.current_period_start = retrieved.current_period_start,
       !.current_period_end = retrieved.current_period_end,
       !.is_expired = FALSE]

update_subscription(row, plan_id, session, retrieved) ==
    [row EXCEPT
       !.plan = plan_id,
       !.stripe_subscription_id = session.subscription,
       !.is_active = TRUE,
       !.status = retrieved.status,
       !.current_period_start = retrieved.current_period_start,
       !.current_period_end = retrieved.current_period_end,
       !.is_expired = FALSE]

\* agency.subscription, then the update-or-create branch.
checkout_instance(subs, agency_id, plan_id, session, retrieved) ==
    LET existing == ByAgency(subs, agency_id) IN
    IF existing = {}
    THEN [exc |-> None, kind |-> "checkout", pk |-> 0,
          row |-> new_subscription(agency_id, plan_id, session, retrieved)]
    ELSE IF Cardinality(existing) > 1 THEN Raised("Exception")
    ELSE LET pk == CHOOSE i \in existing : TRUE IN
         [exc |-> None, kind |-> "checkout", pk |-> pk,
          row |-> update_subscription(subs[pk], plan_id, session, retrieved)]

\* A variant that keeps the current plan when the price id matches no Plan.
checkout_load_PlanOptional(ags, pls, subs, session, retrieved) ==
    IF retrieved.error THEN Raised("Exception")
    ELSE
      LET agency == Get({a \in ags : a.stripe_customer_id = session.customer})
          plan == Get({p \in pls : p.stripe_price_id = retrieved.price})
      IN
      IF agency.exc = "DoesNotExist" THEN Raised("Agency.DoesNotExist")
      ELSE IF agency.exc # None THEN Raised("Exception")
      ELSE IF plan.exc = "DoesNotExist"
      THEN IF ByAgency(subs, agency.obj.id) = {}
           THEN Raised("Plan.DoesNotExist")
           ELSE LET pk == CHOOSE i \in ByAgency(subs, agency.obj.id) : TRUE IN
                checkout_instance(subs, agency.obj.id, subs[pk].plan, session, retrieved)
      ELSE IF plan.exc # None THEN Raised("Exception")
      ELSE checkout_instance(subs, agency.obj.id, plan.obj.id, session, retrieved)

\* handle_checkout_session_completed up to full_clean().
checkout_load(ags, pls, subs, session, retrieved) ==
    IF retrieved.error THEN Raised("Exception")
    ELSE
      LET agency == Get({a \in ags : a.stripe_customer_id = session.customer})
          plan == Get({p \in pls : p.stripe_price_id = retrieved.price})
      IN
      IF agency.exc = "DoesNotExist" THEN Raised("Agency.DoesNotExist")
      ELSE IF agency.exc # None THEN Raised("Exception")
      ELSE IF plan.exc = "DoesNotExist" THEN Raised("Plan.DoesNotExist")
      ELSE IF plan.exc # None THEN Raised("Exception")
      ELSE checkout_instance(subs, agency.obj.id, plan.obj.id, session, retrieved)

\* The assignments of handle_subscription_deleted.
deleted_fields_FlagOnly(row) == [row EXCEPT !.is_active = FALSE]

deleted_fields(row) == [row EXCEPT !.is_active = FALSE, !.status = "canceled"]

deleted_load_Toggles(subs, subscription) ==
    LET found == Get(ByStripeId(subs, subscription.id)) IN
    IF found.exc = "DoesNotExist" THEN Raised("Subscription.DoesNotExist")
    ELSE IF found.exc # None THEN Raised("Exception")
    ELSE [exc |-> None, kind |-> "deleted", pk |-> found.obj,
          row |-> [subs[found.obj] EXCEPT !.is_active = ~@, !.status = "canceled"]]

\* handle_subscription_deleted up to save().
deleted_load(subs, subscription) ==
    LET found == Get(ByStripeId(subs, subscription.id)) IN
    IF found.exc = "DoesNotExist" THEN Raised("Subscription.DoesNotExist")
    ELSE IF found.exc # None THEN Raised("Exception")
    ELSE [exc |-> None, kind |-> "deleted", pk |-> found.obj,
          row |-> deleted_fields(subs[found.obj])]

\* The assignments of handle_subscription_updated before the plan lookup.
updated_fields_UnguardedEnd(row, subscription) ==
    [row EXCEPT
       !.is_active = (subscription.status = "active"),
       !.status = subscription.status,
       !.current_period_end = subscription.current_period_end]

updated_fields(row, subscription) ==
    [row EXCEPT
       !.is_active = (subscription.status = "active"),
       !.status = subscription.status,
       !.current_period_end =
           IF subscription.current_period_end # 0
           THEN subscription.current_period_end
           ELSE @]

\* A variant that saves what it has when the price id matches no Plan.
updated_load_SavesWithoutPlan(pls, subs, subscription) ==
    LET found == Get(ByStripeId(subs, subscription.id))
        new_plan == Get({p \in pls : p.stripe_price_id = subscription.price})
    IN
    IF found.exc = "DoesNotExist" THEN Raised("Subscription.DoesNotExist")
    ELSE IF found.exc # None THEN Raised("Exception")
    ELSE IF new_plan.exc # None
    THEN [exc |-> None, kind |-> "updated", pk |-> found.obj,
          row |-> updated_fields(subs[found.obj], subscription)]
    ELSE [exc |-> None, kind |-> "updated", pk |-> found.obj,
          row |-> [updated_fields(subs[found.obj], subscription) EXCEPT
                     !.plan = new_plan.obj.id]]

\* handle_subscription_updated up to save().
updated_load(pls, subs, subscription) ==
    LET found == Get(ByStripeId(subs, subscription.id))
        new_plan == Get({p \in pls : p.stripe_price_id = subscription.price})
    IN
    IF found.exc = "DoesNotExist" THEN Raised("Subscription.DoesNotExist")
    ELSE IF found.exc # None THEN Raised("Exception")
    ELSE IF new_plan.exc = "DoesNotExist" THEN Raised("Plan.DoesNotExist")
    ELSE IF new_plan.exc # None THEN Raised("Exception")
    ELSE [exc |-> None, kind |-> "updated", pk |-> found.obj,
          row |-> [updated_fields(subs[found.obj], subscription) EXCEPT
                     !.plan = new_plan.obj.id]]

\* The write phase of a handler: full_clean() where the handler calls it,
\* then save().  Answers [exc, subs].
store_DeletesCanceled(subs, loaded) ==
    IF loaded.exc # None THEN [exc |-> loaded.exc, subs |-> subs]
    ELSE IF loaded.pk # 0 /\ loaded.row.status = "canceled"
    THEN [exc |-> None,
          subs |-> [i \in 1..(Len(subs) - 1) |->
                       IF i < loaded.pk THEN subs[i] ELSE subs[i + 1]]]
    ELSE save(subs, loaded.pk, loaded.row)

store(subs, loaded) ==
    IF loaded.exc # None THEN [exc |-> loaded.exc, subs |-> subs]
    ELSE IF loaded.kind = "checkout" /\ ~full_clean(subs, loaded.pk, loaded.row)
    THEN [exc |-> "ValidationError", subs |-> subs]
    ELSE save(subs, loaded.pk, loaded.row)

\* What a handler returns to post(): HttpResponse(status=400) from the
\* except clauses of handle_checkout_session_completed, else nothing (0).
handler_return(handler, exc) ==
    IF handler = "handle_checkout_session_completed" /\ exc # None THEN 400 ELSE 0

\* The outcome of a handler: the exception it logged, or the write it made.
Outcome(loaded, stored) ==
    IF stored.exc # None THEN stored.exc
    ELSE IF loaded.pk = 0 THEN "inserted" ELSE "updated"

---------------------------------------------------------------------------
(* StripeWebhookView.post *)

\* stripe.Webhook.construct_event: the exception it raises, if any.
construct_event_SkipsSignature(req) ==
    IF ~req.payloadOk THEN "ValueError" ELSE None

construct_event(req) ==
    IF ~req.sigOk THEN "SignatureVerificationError"
    ELSE IF ~req.payloadOk THEN "ValueError"
    ELSE None

\* The handler post() dispatches an event type to.
Handler(type) ==
    CASE type = "checkout.session.completed" -> "handle_checkout_session_completed"
      [] type = "invoice.paid" -> "handle_invoice_paid"
      [] type = "customer.subscription.deleted" -> "handle_subscription_deleted"
      [] type = "customer.subscription.updated" -> "handle_subscription_updated"
      [] OTHER -> None

WritingTypes ==
    {"checkout.session.completed", "customer.subscription.deleted",
     "customer.subscription.updated"}

\* The read phase of the handler of an event type.
load(ags, pls, subs, type, object, retrieved) ==
    CASE type = "checkout.session.completed" ->
             checkout_load(ags, pls, subs, object, retrieved)
      [] type = "customer.subscription.deleted" -> deleted_load(subs, object)
      [] type = "customer.subscription.updated" -> updated_load(pls, subs, object)

\* The status of the HttpResponse post() returns after the dispatch: the
\* handler's return value is dropped.
post_status(returned) == 200

\* The record of a request that reached a writing handler.
Answer(type, loaded, stored) ==
    [type |-> type,
     status |-> post_status(handler_return(Handler(type), stored.exc)),
     handler |-> Handler(type),
     returned |-> handler_return(Handler(type), stored.exc),
     outcome |-> Outcome(loaded, stored),
     log |-> IF stored.exc # None THEN "error" ELSE "info"]

\* The else branch of the dispatch: the type is logged.
unhandled_Rejects(subs, type) ==
    [subs |-> subs,
     response |-> [type |-> type, status |-> 400, handler |-> None,
                   returned |-> 0, outcome |-> "unhandled", log |-> "info"]]

unhandled(subs, type) ==
    [subs |-> subs,
     response |-> [type |-> type, status |-> post_status(0), handler |-> None,
                   returned |-> 0, outcome |-> "unhandled", log |-> "info"]]

\* The dispatch of a verified event.
dispatch(ags, pls, subs, type, object, retrieved) ==
    IF type \in WritingTypes
    THEN LET loaded == load(ags, pls, subs, type, object, retrieved)
             stored == store(subs, loaded)
         IN [subs |-> stored.subs, response |-> Answer(type, loaded, stored)]
    ELSE IF type = "invoice.paid"
    THEN [subs |-> subs,
          response |-> [type |-> type, status |-> post_status(0),
                        handler |-> Handler(type), returned |-> 0,
                        outcome |-> "logged", log |-> "info"]]
    ELSE unhandled(subs, type)

\* post(): answers the Subscription rows and the response record it leaves.
post(ags, pls, subs, req, object, retrieved) ==
    LET exc == construct_event(req) IN
    IF exc # None
    THEN [subs |-> subs,
          response |-> [type |-> None, status |-> 400, handler |-> None,
                        returned |-> 0, outcome |-> exc, log |-> "error"]]
    ELSE dispatch(ags, pls, subs, req.type, object, retrieved)

Verified(type) == [payloadOk |-> TRUE, sigOk |-> TRUE, type |-> type]

\* The objects an event of a type may carry, and what the provider may answer
\* to the handler's retrieve call (only the checkout handler makes one).
Objects(type, D) ==
    CASE type = "checkout.session.completed" -> CheckoutSessions(D)
      [] type = "customer.subscription.deleted" -> DeletedObjects(D)
      [] type = "customer.subscription.updated" -> SubscriptionObjects(D)
      [] OTHER -> {None}

Retrievals(type, D) ==
    IF type = "checkout.session.completed"
    THEN StripeSubscriptions(D) \cup {StripeError}
    ELSE {StripeError}

\* One whole webhook request, served without another request in between.
PostRejected ==
    \E req \in Requests :
        /\ ~req.sigOk \/ ~req.payloadOk
        /\ LET object == CHOOSE o \in Objects(req.type, Wide) : TRUE
               done == post(agencies, plans, subscriptions, req, object, StripeError)
           IN /\ subscriptions' = done.subs
              /\ response' = done.response
        /\ UNCHANGED <<shifts, assignments, agencies, plans, inflight, now, stripe, request>>

PostCheckoutCompleted(D) ==
    \E session \in CheckoutSessions(D), retrieved \in StripeSubscriptions(D) \cup {StripeError} :
        /\ LET done == post(agencies, plans, subscriptions,
                            Verified("checkout.session.completed"), session, retrieved)
           IN /\ subscriptions' = done.subs
              /\ response' = done.response
        /\ UNCHANGED <<shifts, assignments, agencies, plans, inflight, now, stripe, request>>

PostInvoicePaid ==
    /\ LET done == post(agencies, plans, subscriptions,
                        Verified("invoice.paid"), None, StripeError)
       IN /\ subscriptions' = done.subs
          /\ response' = done.response
    /\ UNCHANGED <<shifts, assignments, agencies, plans, inflight, now, stripe, request>>

PostSubscriptionDeleted(D) ==
    \E subscription \in DeletedObjects(D) :
        /\ LET done == post(agencies, plans, subscriptions,
                            Verified("customer.subscription.deleted"), subscription,
                            StripeError)
           IN /\ subscriptions' = done.subs
              /\ response' = done.response
        /\ UNCHANGED <<shifts, assignments, agencies, plans, inflight, now, stripe, request>>

PostSubscriptionUpdated(D) ==
    \E subscription \in SubscriptionObjects(D) :
        /\ LET done == post(agencies, plans, subscriptions,
                            Verified("customer.subscription.updated"), subscription,
                            StripeError)
           IN /\ subscriptions' = done.subs
              /\ response' = done.response
        /\ UNCHANGED <<shifts, assignments, agencies, plans, inflight, now, stripe, request>>

PostUnhandled ==
    /\ LET done == post(agencies, plans, subscriptions,
                        Verified("customer.created"), None, StripeError)
       IN /\ subscriptions' = done.subs
          /\ response' = done.response
    /\ UNCHANGED <<shifts, assignments, agencies, plans, inflight, now, stripe, request>>

\* The same request served while others are: the handler has read and built
\* its instance, and has not saved it yet.
WebhookBegin(w, D) ==
    /\ inflight[w] = Idle
    /\ \E type \in WritingTypes :
       \E object \in Objects(type, D), retrieved \in Retrievals(type, D) :
           LET loaded == load(agencies, plans, subscriptions, type, object, retrieved) IN
           /\ loaded.exc = None
           /\ inflight' = [inflight EXCEPT ![w] =
                  [kind |-> loaded.kind, type |-> type, pk |-> loaded.pk,
                   row |-> loaded.row, exc |-> None]]
    /\ UNCHANGED <<shifts, assignments, agencies, plans, subscriptions, response, now, stripe, request>>

WebhookCommit(w) ==
    /\ inflight[w] # Idle
    /\ LET loaded == inflight[w]
           stored == store(subscriptions, loaded)
       IN /\ subscriptions' = stored.subs
          /\ response' = Answer(loaded.type, loaded, stored)
    /\ inflight' = [inflight EXCEPT ![w] = Idle]
    /\ UNCHANGED <<shifts, assignments, agencies, plans, now, stripe, request>>

---------------------------------------------------------------------------
(* The interactive views that write a Subscription *)

\* request.user: whether the user is authenticated, a superuser, in the
\* group "Agency Owners", has a Profile, and the Agency of that Profile.
Users ==
    {[is_authenticated |-> FALSE, is_superuser |-> FALSE, owner |-> FALSE,
      profile |-> FALSE, agency |-> None],
     [is_authenticated |-> TRUE, is_superuser |-> FALSE, owner |-> TRUE,
      profile |-> TRUE, agency |-> "a1"],
     [is_authenticated |-> TRUE, is_superuser |-> FALSE, owner |-> FALSE,
      profile |-> TRUE, agency |-> "a1"],
     [is_authenticated |-> TRUE, is_superuser |-> FALSE, owner |-> TRUE,
      profile |-> TRUE, agency |-> None],
     [is_authenticated |-> TRUE, is_superuser |-> TRUE, owner |-> FALSE,
      profile |-> FALSE, agency |-> None]}

PlanIds == {"p1", "p2", "p9"}

\* LoginRequiredMixin, then AgencyOwnerRequiredMixin.test_func.
AgencyOwnerRequired(user) ==
    user.is_authenticated /\ (user.is_superuser \/ user.owner)

\* The argument of the redirect(...) an interactive view returns with each
\* outcome.  A refused user gets LoginRequiredMixin's redirect to the login
\* URL from SubscribeView and AgencyOwnerRequiredMixin.handle_no_permission's
\* from the other views.
Location(view, outcome) ==
    CASE outcome = "denied" ->
           IF view = "subscribe" THEN "settings.LOGIN_URL" ELSE "home:home"
      [] view = "subscribe" /\ outcome = "Profile.DoesNotExist" ->
           "accounts:update_profile"
      [] view = "subscribe" /\ outcome = "no agency" -> "accounts:create_agency"
      [] outcome \in {"already subscribed", "updated"} ->
           "subscriptions:manage_subscription"
      [] outcome \in {"checkout", "portal"} -> "session.url"
      [] OTHER -> "subscriptions:subscription_home"

\* The record of an interactive request: every outcome but Http404 redirects.
Redirect(view, outcome, level) ==
    [type |-> view, status |-> 302, handler |-> view, returned |-> 0,
     outcome |-> outcome, log |-> level, to |-> Location(view, outcome)]

\* SubscriptionChangeView.post; change_type is "upgrade" or "downgrade", and
\* provider tells whether the retrieve and the modify call succeed.
change_post(pls, subs, user, change_type, plan_id, provider) ==
    LET new_plan == Get({p \in pls : p.id = plan_id /\ p.is_active})
        failed(outcome) == [subs |-> subs, response |-> Redirect(change_type, outcome, "error")]
    IN
    IF ~AgencyOwnerRequired(user) THEN failed("denied")
    ELSE IF new_plan.exc # None
    THEN [subs |-> subs,
          response |-> [Redirect(change_type, "Http404", "error") EXCEPT !.status = 404]]
    ELSE IF ~user.profile THEN failed("Profile.DoesNotExist")
    ELSE IF user.agency = None THEN failed("no agency")
    ELSE
      LET existing == ByAgency(subs, user.agency) IN
      IF existing = {} THEN failed("Subscription.DoesNotExist")
      ELSE IF Cardinality(existing) > 1 THEN failed("Exception")
      ELSE IF ~provider.retrieved \/ ~provider.modified THEN failed("StripeError")
      ELSE LET pk == CHOOSE i \in existing : TRUE
               stored == save(subs, pk, [subs[pk] EXCEPT !.plan = new_plan.obj.id])
           IN IF stored.exc # None THEN failed("Exception")
              ELSE [subs |-> stored.subs,
                    response |-> Redirect(change_type, "updated", "info")]

\* The loop of CancelSubscriptionView.post over the provider's active
\* subscriptions: the provider call number failAt raises (call 1 is the
\* listing, call i + 1 the deletion of listing[i]).  filter(...).first() is
\* the matching row of least primary key.
RECURSIVE cancel_loop(_, _, _, _)
cancel_loop(subs, listing, i, failAt) ==
    IF i > Len(listing) THEN [exc |-> None, subs |-> subs]
    ELSE IF failAt = i + 1 THEN [exc |-> "StripeError", subs |-> subs]
    ELSE LET local == ByStripeId(subs, listing[i]) IN
         IF local = {} THEN cancel_loop(subs, listing, i + 1, failAt)
         ELSE LET pk == CHOOSE k \in local : \A j \in local : k <= j
                  stored == save(subs, pk, deleted_fields(subs[pk]))
              IN IF stored.exc # None THEN stored
                 ELSE cancel_loop(stored.subs, listing, i + 1, failAt)

\* CancelSubscriptionView.post.
cancel_post(ags, subs, user, listing, failAt) ==
    LET failed(outcome) == [subs |-> subs, response |-> Redirect("cancel", outcome, "error")] IN
    IF ~AgencyOwnerRequired(user) THEN failed("denied")
    ELSE IF ~user.profile THEN failed("Profile.DoesNotExist")
    ELSE IF user.agency = None THEN failed("no agency")
    ELSE IF (CHOOSE a \in ags : a.id = user.agency).stripe_customer_id = None
    THEN failed("no customer id")
    ELSE IF failAt = 1 THEN failed("StripeError")
    ELSE LET looped == cancel_loop(subs, listing, 1, failAt) IN
         [subs |-> looped.subs,
          response |-> IF looped.exc # None
                       THEN Redirect("cancel", looped.exc, "error")
                       ELSE Redirect("cancel", "cancelled", "info")]

\* The provider's answers to list(customer=..., status='active').
Listings(D, customer) ==
    LET mine == {s \in D.sids : Owner(s) = customer} IN
    {<< >>} \cup {<<s>> : s \in mine}
            \cup {<<p[1], p[2]>> : p \in {q \in mine \X mine : q[1] # q[2]}}

\* The stripe_customer_id of the user's Agency.
CustomerOf(ags, user) ==
    IF user.agency = None THEN None
    ELSE (CHOOSE a \in ags : a.id = user.agency).stripe_customer_id

\* The members of the first agency: its owner, and a user outside the group.
Members == {u \in Users : u.agency = "a1"}

ChangePost(US, CT, PS) ==
    \E user \in US, change_type \in CT, plan_id \in PS,
       provider \in [retrieved : BOOLEAN, modified : BOOLEAN] :
        /\ LET done == change_post(plans, subscriptions, user, change_type, plan_id, provider)
           IN /\ subscriptions' = done.subs
              /\ response' = done.response
        /\ UNCHANGED <<shifts, assignments, agencies, plans, inflight, now, stripe, request>>

CancelPost(US, D) ==
    \E user \in US :
    \E listing \in Listings(D, CustomerOf(agencies, user)) :
    \E failAt \in 1..(Len(listing) + 2) :
        /\ LET done == cancel_post(agencies, subscriptions, user, listing, failAt)
           IN /\ subscriptions' = done.subs
              /\ response' = done.response
        /\ UNCHANGED <<shifts, assignments, agencies, plans, inflight, now, stripe, request>>

---------------------------------------------------------------------------
(* The interactive views, one provider call or database write at a time *)

\* SubscriptionChangeView.post up to its first provider call: the gate, the
\* Plan of plan_id, and the Subscription instance read through
\* user.profile.agency.subscription.
change_begin(pls, subs, user, plan_id) ==
    LET new_plan == Get({p \in pls : p.id = plan_id /\ p.is_active}) IN
    IF ~AgencyOwnerRequired(user) THEN Raised("denied")
    ELSE IF new_plan.exc # None THEN Raised("Http404")
    ELSE IF ~user.profile THEN Raised("Profile.DoesNotExist")
    ELSE IF user.agency = None THEN Raised("no agency")
    ELSE
      LET existing == ByAgency(subs, user.agency) IN
      IF existing = {} THEN Raised("Subscription.DoesNotExist")
      ELSE IF Cardinality(existing) > 1 THEN Raised("Exception")
      ELSE LET pk == CHOOSE i \in existing : TRUE IN
           [exc |-> None, kind |-> "change", pk |-> pk, row |-> subs[pk],
            plan |-> new_plan.obj.id, price |-> new_plan.obj.stripe_price_id]

\* What a change request that ended early answers.
change_refused(change_type, exc) ==
    IF exc = "Http404"
    THEN [Redirect(change_type, exc, "error") EXCEPT !.status = 404]
    ELSE Redirect(change_type, exc, "error")

\* The instance SubscriptionChangeView.post saves: the one it read, with the
\* new Plan.
changed_instance_Reread(subs, req) == [subs[req.pk] EXCEPT !.plan = req.plan]

changed_instance(subs, req) == [req.row EXCEPT !.plan = req.plan]

ChangeBegin(US, CT, PS) ==
    /\ request = Idle
    /\ \E user \in US, change_type \in CT, plan_id \in PS :
          LET begun == change_begin(plans, subscriptions, user, plan_id) IN
          IF begun.exc # None
          THEN /\ response' = change_refused(change_type, begun.exc)
               /\ UNCHANGED request
          ELSE /\ request' = [kind |-> "change", step |-> "retrieve",
                              type |-> change_type, pk |-> begun.pk,
                              row |-> begun.row, plan |-> begun.plan,
                              price |-> begun.price]
               /\ UNCHANGED response
    /\ UNCHANGED <<shifts, assignments, agencies, plans, subscriptions, inflight, now, stripe>>

\* stripe.Subscription.retrieve(subscription.stripe_subscription_id).
ChangeRetrieve ==
    /\ request # Idle
    /\ request.kind = "change" /\ request.step = "retrieve"
    /\ \E ok \in BOOLEAN :
          IF ok
          THEN /\ request' = [request EXCEPT !.step = "modify"]
               /\ UNCHANGED response
          ELSE /\ request' = Idle
               /\ response' = Redirect(request.type, "StripeError", "error")
    /\ UNCHANGED <<shifts, assignments, agencies, plans, subscriptions, inflight, now, stripe>>

ChangeModify_WritesOnFailure ==
    /\ request # Idle
    /\ request.kind = "change" /\ request.step = "modify"
    /\ subscriptions' = save(subscriptions, request.pk,
                             [request.row EXCEPT !.plan = request.plan]).subs
    /\ request' = Idle
    /\ response' = Redirect(request.type, "StripeError", "error")
    /\ UNCHANGED <<shifts, assignments, agencies, plans, inflight, now, stripe>>

\* stripe.Subscription.modify(...): the provider swaps the item's price, or
\* refuses (it always refuses for a subscription that is not active).
ChangeModify ==
    /\ request # Idle
    /\ request.kind = "change" /\ request.step = "modify"
    /\ LET sid == request.row.stripe_subscription_id IN
       \E ok \in BOOLEAN :
          IF ok /\ sid \in DOMAIN stripe /\ stripe[sid].active
          THEN /\ stripe' = [stripe EXCEPT ![sid].price = request.price]
               /\ request' = [request EXCEPT !.step = "save"]
               /\ UNCHANGED response
          ELSE /\ request' = Idle
               /\ response' = Redirect(request.type, "StripeError", "error")
               /\ UNCHANGED stripe
    /\ UNCHANGED <<shifts, assignments, agencies, plans, subscriptions, inflight, now>>

\* subscription.plan = new_plan; subscription.save().
ChangeSave ==
    /\ request # Idle
    /\ request.kind = "change" /\ request.step = "save"
    /\ LET stored == save(subscriptions, request.pk,
                          changed_instance(subscriptions, request))
       IN /\ subscriptions' = stored.subs
          /\ response' = IF stored.exc # None
                         THEN Redirect(request.type, "Exception", "error")
                         ELSE Redirect(request.type, "updated", "info")
    /\ request' = Idle
    /\ UNCHANGED <<shifts, assignments, agencies, plans, inflight, now, stripe>>

\* CancelSubscriptionView.post up to its first provider call.
cancel_begin(ags, user) ==
    IF ~AgencyOwnerRequired(user) THEN "denied"
    ELSE IF ~user.profile THEN "Profile.DoesNotExist"
    ELSE IF user.agency = None THEN "no agency"
    ELSE IF CustomerOf(ags, user) = None THEN "no customer id"
    ELSE None

\* The orders in which the provider may list a set of subscriptions.
Orderings(S) ==
    {l \in [1..Cardinality(S) -> S] : \A i, j \in DOMAIN l : i # j => l[i] # l[j]}

CancelBegin(US) ==
    /\ request = Idle
    /\ \E user \in US :
          IF cancel_begin(agencies, user) # None
          THEN /\ response' = Redirect("cancel", cancel_begin(agencies, user), "error")
               /\ UNCHANGED request
          ELSE /\ request' = [kind |-> "cancel", step |-> "list",
                              customer |-> CustomerOf(agencies, user),
                              todo |-> << >>]
               /\ UNCHANGED response
    /\ UNCHANGED <<shifts, assignments, agencies, plans, subscriptions, inflight, now, stripe>>

\* stripe.Subscription.list(customer=..., status='active').
CancelList ==
    /\ request # Idle
    /\ request.kind = "cancel" /\ request.step = "list"
    /\ \/ /\ request' = Idle
          /\ response' = Redirect("cancel", "StripeError", "error")
       \/ \E listing \in Orderings({s \in DOMAIN stripe :
                                      Owner(s) = request.customer /\ stripe[s].active}) :
             IF listing = << >>
             THEN /\ request' = Idle
                  /\ response' = Redirect("cancel", "cancelled", "info")
             ELSE /\ request' = [request EXCEPT !.step = "delete", !.todo = listing]
                  /\ UNCHANGED response
    /\ UNCHANGED <<shifts, assignments, agencies, plans, subscriptions, inflight, now, stripe>>

CancelDelete_IgnoresError ==
    /\ request # Idle
    /\ request.kind = "cancel" /\ request.step = "delete"
    /\ request' = [request EXCEPT !.step = "local"]
    /\ UNCHANGED <<shifts, assignments, agencies, plans, subscriptions, inflight, now, stripe, response>>

\* stripe.Subscription.delete(subscription.id) for the next listed one.
CancelDelete ==
    /\ request # Idle
    /\ request.kind = "cancel" /\ request.step = "delete"
    /\ \/ /\ request' = Idle
          /\ response' = Redirect("cancel", "StripeError", "error")
          /\ UNCHANGED stripe
       \/ /\ stripe' = [stripe EXCEPT ![Head(request.todo)].active = FALSE]
          /\ request' = [request EXCEPT !.step = "local"]
          /\ UNCHANGED response
    /\ UNCHANGED <<shifts, assignments, agencies, plans, subscriptions, inflight, now>>

\* The local row of the subscription just deleted, if any, is deactivated
\* and saved; then the loop goes on or the view answers.
CancelLocal ==
    /\ request # Idle
    /\ request.kind = "cancel" /\ request.step = "local"
    /\ LET local == ByStripeId(subscriptions, Head(request.todo))
           pk == CHOOSE k \in local : \A j \in local : k <= j
           stored == IF local = {} THEN [exc |-> None, subs |-> subscriptions]
                     ELSE save(subscriptions, pk, deleted_fields(subscriptions[pk]))
       IN /\ subscriptions' = stored.subs
          /\ IF stored.exc # None
             THEN /\ request' = Idle
                  /\ response' = Redirect("cancel", "Exception", "error")
             ELSE IF Tail(request.todo) = << >>
             THEN /\ request' = Idle
                  /\ response' = Redirect("cancel", "cancelled", "info")
             ELSE /\ request' = [request EXCEPT !.step = "delete",
                                                !.todo = Tail(request.todo)]
                  /\ UNCHANGED response
    /\ UNCHANGED <<shifts, assignments, agencies, plans, inflight, now, stripe>>

\* SubscriptionChangeView.get_context_data: the Plans offered for a change
\* of a Subscription whose Plan costs `price`.
candidates(pls, price, change_type) ==
    CASE change_type = "upgrade" -> {p \in pls : p.price > price /\ p.is_active}
      [] change_type = "downgrade" -> {p \in pls : p.price < price /\ p.is_active}
      [] OTHER -> {}

\* QuerySet.order_by("price") and order_by("-price"): the database returns
\* the rows sorted on the price, rows of equal price in any order.
order_by_Unsorted(S, descending) == Orderings(S)

order_by(S, descending) ==
    {l \in Orderings(S) :
        \A i \in 1..(Len(l) - 1) :
            IF descending THEN l[i].price >= l[i + 1].price
            ELSE l[i].price <= l[i + 1].price}

available_plans(pls, price, change_type) ==
    order_by(candidates(pls, price, change_type), change_type = "downgrade")

---------------------------------------------------------------------------
(* The pages: what get_context_data puts in the template context *)

\* A template context: the keys it holds, context["subscription"] (empty
\* for None, else the row), context["current_plan"] and
\* context["available_plans"].
Context(keys, subscription, current_plan, available) ==
    [keys |-> keys, subscription |-> subscription,
     current_plan |-> current_plan, available_plans |-> available]

NoContext == Context({}, << >>, << >>, << >>)

\* What a page request answered: the context it rendered, if it did.
Page(name, status, outcome, context) ==
    [type |-> name, status |-> status, handler |-> name, returned |-> 0,
     outcome |-> outcome, log |-> None, context |-> context]

\* SubscriptionHomeView.get_context_data: the test on the Subscription.
home_presented_FlagOnly(row, t) == row.is_active

home_presented(row, t) ==
    row.is_active /\ row.current_period_end # 0 /\ row.current_period_end > t

\* SubscriptionHomeView (LoginRequiredMixin): context["subscription"].
home_get(subs, user, t) ==
    IF ~user.is_authenticated THEN Page("home", 302, "denied", NoContext)
    ELSE IF ~user.profile THEN Page("home", 200, "Profile.DoesNotExist", NoContext)
    ELSE IF user.agency = None THEN Page("home", 200, "no agency", NoContext)
    ELSE
      LET existing == ByAgency(subs, user.agency)
          row == subs[CHOOSE i \in existing : TRUE]
          none == Context({"subscription", "available_plans"}, << >>, << >>, << >>)
      IN
      IF existing = {} THEN Page("home", 200, "Subscription.DoesNotExist", none)
      ELSE IF Cardinality(existing) > 1 THEN Page("home", 200, "Exception", none)
      ELSE IF home_presented(row, t)
      THEN Page("home", 200, "shown",
                Context({"subscription", "available_plans"}, <<row>>, << >>, << >>))
      ELSE Page("home", 200, "shown", none)

\* ManageSubscriptionView.get_context_data: the test on the Subscription.
manage_presented(row, t) ==
    row.is_active /\ row.current_period_end # 0 /\ row.current_period_end > t

\* ManageSubscriptionView: context["subscription"]; provider tells whether
\* the listing and the billing portal calls succeed.  When they fail
\* get_context_data returns a redirect in place of the context, which the
\* template cannot render.
manage_get(ags, subs, user, t, provider) ==
    IF ~AgencyOwnerRequired(user) THEN Page("manage", 302, "denied", NoContext)
    ELSE IF ~user.profile THEN Page("manage", 200, "Profile.DoesNotExist", NoContext)
    ELSE IF user.agency = None THEN Page("manage", 200, "no agency", NoContext)
    ELSE IF CustomerOf(ags, user) = None
    THEN Page("manage", 200, "no customer id", NoContext)
    ELSE
      LET existing == ByAgency(subs, user.agency)
          row == subs[CHOOSE i \in existing : TRUE]
          keys == {"subscription", "subscriptions", "billing_portal_url"}
      IN
      IF Cardinality(existing) > 1 THEN Page("manage", 500, "Exception", NoContext)
      ELSE IF ~provider THEN Page("manage", 500, "StripeError", NoContext)
      ELSE IF existing = {}
      THEN Page("manage", 200, "Subscription.DoesNotExist",
                Context(keys, << >>, << >>, << >>))
      ELSE IF manage_presented(row, t)
      THEN Page("manage", 200, "shown", Context(keys, <<row>>, << >>, << >>))
      ELSE Page("manage", 200, "shown", Context(keys, << >>, << >>, << >>))

\* SubscriptionChangeView.get_context_data: the test on the Subscription.
change_presented(row, t) ==
    row.is_active /\ row.current_period_end # 0 /\ row.current_period_end > t

\* SubscriptionChangeView.get_context_data: context["current_plan"] and the
\* candidates, `available` being the order the database returned them in.
change_get(pls, subs, user, t, change_type, available) ==
    IF ~AgencyOwnerRequired(user) THEN Page(change_type, 302, "denied", NoContext)
    ELSE IF ~user.profile THEN Page(change_type, 200, "Profile.DoesNotExist", NoContext)
    ELSE IF user.agency = None THEN Page(change_type, 200, "Exception", NoContext)
    ELSE
      LET existing == ByAgency(subs, user.agency)
          row == subs[CHOOSE i \in existing : TRUE]
      IN
      IF existing = {} THEN Page(change_type, 200, "Subscription.DoesNotExist", NoContext)
      ELSE IF Cardinality(existing) > 1 THEN Page(change_type, 200, "Exception", NoContext)
      ELSE IF ~change_presented(row, t)
      THEN Page(change_type, 200, "not active", NoContext)
      ELSE Page(change_type, 200, "offered",
                Context({"current_plan", "available_plans", "form_title", "button_label"},
                        << >>, <<row.plan>>, available))

\* The price of subscription.plan.
plan_price(pls, subs, user) ==
    LET existing == ByAgency(subs, user.agency) IN
    IF user.agency = None \/ existing = {} THEN 0
    ELSE (CHOOSE p \in pls : p.id = subs[CHOOSE i \in existing : TRUE].plan).price

HomeGet ==
    /\ request = Idle
    /\ \E user \in Users : response' = home_get(subscriptions, user, now)
    /\ UNCHANGED <<shifts, assignments, agencies, plans, subscriptions, inflight, now, stripe, request>>

ManageGet ==
    /\ request = Idle
    /\ \E user \in Users, provider \in BOOLEAN :
          response' = manage_get(agencies, subscriptions, user, now, provider)
    /\ UNCHANGED <<shifts, assignments, agencies, plans, subscriptions, inflight, now, stripe, request>>

ChangeGet ==
    /\ request = Idle
    /\ \E user \in Users, change_type \in {"upgrade", "downgrade"} :
       \E available \in available_plans(plans, plan_price(plans, subscriptions, user),
                                        change_type) :
          response' = change_get(plans, subscriptions, user, now, change_type, available)
    /\ UNCHANGED <<shifts, assignments, agencies, plans, subscriptions, inflight, now, stripe, request>>

process_subscription_NoDuplicateGuard(ags, pls, subs, user, plan_id, provider) ==
    LET plan == Get({p \in pls : p.id = plan_id /\ p.is_active})
        existing == ByAgency(subs, user.agency)
        refused(outcome) == Redirect("subscribe", outcome, "error")
    IN
    IF ~user.is_authenticated THEN refused("denied")
    ELSE IF ~user.profile THEN refused("Profile.DoesNotExist")
    ELSE IF user.agency = None THEN refused("no agency")
    ELSE IF ~user.owner THEN Redirect("subscribe", "not owner", "warning")
    ELSE IF plan.exc # None THEN [refused("Http404") EXCEPT !.status = 404]
    ELSE IF CustomerOf(ags, user) = None THEN refused("no customer id")
    ELSE IF ~provider.retrieved THEN refused("StripeError")
    ELSE IF Cardinality(existing) > 1 THEN [refused("Exception") EXCEPT !.status = 500]
    ELSE IF ~provider.created THEN refused("StripeError")
    ELSE Redirect("subscribe", "checkout", "info")

\* SubscribeView.process_subscription; provider tells whether
\* stripe.Customer.retrieve and stripe.checkout.Session.create succeed.
process_subscription(ags, pls, subs, user, plan_id, provider) ==
    LET plan == Get({p \in pls : p.id = plan_id /\ p.is_active})
        existing == ByAgency(subs, user.agency)
        refused(outcome) == Redirect("subscribe", outcome, "error")
    IN
    IF ~user.is_authenticated THEN refused("denied")
    ELSE IF ~user.profile THEN refused("Profile.DoesNotExist")
    ELSE IF user.agency = None THEN refused("no agency")
    ELSE IF ~user.owner THEN Redirect("subscribe", "not owner", "warning")
    ELSE IF plan.exc # None THEN [refused("Http404") EXCEPT !.status = 404]
    ELSE IF CustomerOf(ags, user) = None THEN refused("no customer id")
    ELSE IF ~provider.retrieved THEN refused("StripeError")
    ELSE IF Cardinality(existing) > 1 THEN [refused("Exception") EXCEPT !.status = 500]
    ELSE IF existing # {} /\ subs[CHOOSE i \in existing : TRUE].is_active
    THEN Redirect("subscribe", "already subscribed", "info")
    ELSE IF ~provider.created THEN refused("StripeError")
    ELSE Redirect("subscribe", "checkout", "info")

\* UpdatePaymentMethodView.get; provider tells whether
\* stripe.billing_portal.Session.create succeeds.
update_payment_get(ags, user, provider) ==
    LET refused(outcome) == Redirect("update_payment", outcome, "error") IN
    IF ~AgencyOwnerRequired(user) THEN refused("denied")
    ELSE IF ~user.profile THEN refused("Profile.DoesNotExist")
    ELSE IF user.agency = None THEN refused("no agency")
    ELSE IF CustomerOf(ags, user) = None THEN refused("no customer id")
    ELSE IF ~provider THEN refused("StripeError")
    ELSE Redirect("update_payment", "portal", "info")

SubscribeGet(US) ==
    /\ request = Idle
    /\ \E user \in US, plan_id \in PlanIds,
          provider \in [retrieved : BOOLEAN, created : BOOLEAN] :
          response' = process_subscription(agencies, plans, subscriptions, user,
                                           plan_id, provider)
    /\ UNCHANGED <<shifts, assignments, agencies, plans, subscriptions, inflight, now, stripe, request>>

UpdatePaymentGet(US) ==
    /\ request = Idle
    /\ \E user \in US, provider \in BOOLEAN :
          response' = update_payment_get(agencies, user, provider)
    /\ UNCHANGED <<shifts, assignments, agencies, plans, subscriptions, inflight, now, stripe, request>>

\* Time passes between requests (a request is served within one instant).
Tick ==
    /\ request = Idle
    /\ now < MaxTime + 2
    /\ now' = now + 1
    /\ UNCHANGED <<shifts, assignments, agencies, plans, subscriptions, inflight, response, stripe, request>>

\* Requests served one after the other.
Next ==
    \/ PostRejected
    \/ PostCheckoutCompleted(Wide)
    \/ PostInvoicePaid
    \/ PostSubscriptionDeleted(Wide)
    \/ PostSubscriptionUpdated(Wide)
    \/ PostUnhandled

Spec == Init /\ [][Next]_vars

\* Requests served concurrently.
NextConc ==
    \/ PostCheckoutCompleted(Narrow)
    \/ ChangePost(Members, {"upgrade"}, {"p2", "p9"})
    \/ CancelPost(Members, Narrow)
    \/ \E w \in Workers : WebhookBegin(w, Narrow)
    \/ \E w \in Workers : WebhookCommit(w)

SpecConc == Init /\ [][NextConc]_vars

\* The provider reports the deletion of the subscriptions that ended.
Ended(D) == [D EXCEPT !.sids = {s \in D.sids : ~stripe[s].active}]

\* Webhook events and interactive requests of the first agency's users,
\* served one after the other while time passes.
NextUser ==
    \/ request = Idle /\ PostCheckoutCompleted(Narrow)
    \/ request = Idle /\ PostSubscriptionDeleted(Ended(Narrow))
    \/ request = Idle /\ PostSubscriptionUpdated(Narrow)
    \/ ChangeBegin(Members, {"upgrade", "downgrade"}, PlanIds)
    \/ ChangeRetrieve
    \/ ChangeModify
    \/ ChangeSave
    \/ CancelBegin(Members)
    \/ CancelList
    \/ CancelDelete
    \/ CancelLocal
    \/ SubscribeGet(Members)
    \/ ManageGet
    \/ UpdatePaymentGet(Members)
    \/ Tick

SpecUser == Init /\ [][NextUser]_vars

\* The Plans a database may hold: some of four Plans, each active or not,
\* two of them at the same price.
PlanPool ==
    {[id |-> "p1", stripe_price_id |-> "price_1", price |-> 10],
     [id |-> "p2", stripe_price_id |-> "price_2", price |-> 20],
     [id |-> "p3", stripe_price_id |-> "price_3", price |-> 20],
     [id |-> "p4", stripe_price_id |-> "price_4", price |-> 30]}

Catalogues ==
    {{[id |-> p.id, stripe_price_id |-> p.stripe_price_id, price |-> p.price,
       is_active |-> p.id \in on] : p \in held} :
        held \in SUBSET PlanPool \ {{}}, on \in SUBSET {"p1", "p2", "p3", "p4"}}

\* The Subscription rows the first agency may have: none, or one on a Plan
\* of the database, active or not, with no period end (0) or one before, at
\* or after now.
StoredRows(pls) ==
    {[agency |-> "a1", plan |-> p.id, stripe_subscription_id |-> "sub_1",
      is_active |-> f, status |-> IF f THEN "active" ELSE "canceled",
      current_period_start |-> 1, current_period_end |-> e, is_expired |-> FALSE] :
        p \in pls, f \in BOOLEAN, e \in 0..(MaxTime + 2)}

InitPages ==
    /\ agencies = InitAgencies
    /\ shifts = {}
    /\ assignments = {}
    /\ plans \in Catalogues
    /\ subscriptions \in {<< >>} \cup {<<row>> : row \in StoredRows(plans)}
    /\ inflight = [w \in Workers |-> Idle]
    /\ response = NoResponse
    /\ now = MaxTime + 1
    /\ stripe = InitStripe
    /\ request = Idle

\* The pages requested of a database.
NextPages ==
    \/ HomeGet
    \/ ManageGet
    \/ ChangeGet

SpecPages == InitPages /\ [][NextPages]_vars

\* The agency owner among the users.
Owners == {u \in Members : u.owner}

\* Webhook events served concurrently with an upgrade request of the first
\* agency's owner: every handler reads the row, and saves it later.
NextRace ==
    \/ \E w \in Workers : WebhookBegin(w, Single)
    \/ \E w \in Workers : WebhookCommit(w)
    \/ ChangeBegin(Owners, {"upgrade"}, {"p1", "p2"})
    \/ ChangeRetrieve
    \/ ChangeModify
    \/ ChangeSave

\* The database after the first agency's checkout of sub_1 on plan p1.
InitRace ==
    /\ agencies = InitAgencies
    /\ shifts = {}
    /\ assignments = {}
    /\ plans = InitPlans
    /\ subscriptions =
          <<new_subscription("a1", "p1", [customer |-> "cus_1", subscription |-> "sub_1"],
                             [error |-> FALSE, price |-> "price_1", status |-> "active",
                              current_period_start |-> 1, current_period_end |-> 2])>>
    /\ inflight = [w \in Workers |-> Idle]
    /\ response = NoResponse
    /\ now = 1
    /\ stripe = InitStripe
    /\ request = Idle

SpecRace == InitRace /\ [][NextRace]_vars

---------------------------------------------------------------------------
(* Access gates (core/mixins.py) *)

\* The Plan attributes a gated view may name in required_features.
Features == {"shift_management", "custom_integrations"}

\* required_features: the class attribute of a gated view, possibly empty.
RequiredFeatures == SUBSET Features

\* Superusers with a profile, with and without an agency (Users holds the
\* one without a profile).
Superusers ==
    {[is_authenticated |-> TRUE, is_superuser |-> TRUE, owner |-> FALSE,
      profile |-> TRUE, agency |-> a] : a \in {None, "a1"}}

\* request.user of a gated view: subscription_features is the attribute
\* FeatureRequiredMixin reads, absent (empty) on an anonymous user.
GateUsers ==
    LET all == {[is_authenticated |-> u.is_authenticated,
                 is_superuser |-> u.is_superuser, owner |-> u.owner,
                 profile |-> u.profile, agency |-> u.agency,
                 subscription_features |-> fs] :
                    u \in Users \cup Superusers, fs \in SUBSET Features}
    IN  {u \in all : u.is_authenticated \/ u.subscription_features = {}}

\* getattr(plan, feature, False) for the Plan with the given id.
plan_feature(pls, plan_id, feature) ==
    \E p \in pls : p.id = plan_id /\ feature \in p.features

subscription_test_func_ProfileFirst(subs, pls, user, required_features) ==
    IF ~user.is_authenticated THEN FALSE
    ELSE IF ~user.profile THEN FALSE
    ELSE IF user.is_superuser THEN TRUE
    ELSE IF user.agency = None THEN FALSE
    ELSE
      LET found == {i \in ByAgency(subs, user.agency) : subs[i].is_active}
      IN  IF found = {} THEN FALSE
          ELSE LET plan == subs[CHOOSE i \in found : TRUE].plan
               IN  \A feature \in required_features :
                      plan_feature(pls, plan, feature)

\* SubscriptionRequiredMixin.test_func.  A missing profile raises
\* RelatedObjectDoesNotExist, an AttributeError, which the method catches;
\* Subscription.agency is one-to-one, so get() finds at most one row.
subscription_test_func(subs, pls, user, required_features) ==
    IF user.is_superuser THEN TRUE
    ELSE IF ~user.is_authenticated THEN FALSE
    ELSE IF ~user.profile THEN FALSE
    ELSE IF user.agency = None THEN FALSE
    ELSE
      LET found == {i \in ByAgency(subs, user.agency) : subs[i].is_active}
      IN  IF found = {} THEN FALSE
          ELSE LET plan == subs[CHOOSE i \in found : TRUE].plan
               IN  \A feature \in required_features :
                      plan_feature(pls, plan, feature)

\* FeatureRequiredMixin.test_func.
feature_test_func(user, required_features) ==
    IF required_features = {} THEN TRUE
    ELSE IF user.is_superuser THEN TRUE
    ELSE IF ~user.is_authenticated THEN FALSE
    ELSE \A feature \in required_features : feature \in user.subscription_features

\* The auth groups the role mixins look for.
Groups == {"Agency Owners", "Agency Managers", "Agency Staff"}

\* request.user of a role-gated view; an anonymous user is in no group.
RoleUsers ==
    {u \in [is_authenticated : BOOLEAN, is_superuser : BOOLEAN,
            groups : SUBSET Groups] :
        u.is_authenticated \/ (~u.is_superuser /\ u.groups = {})}

\* SuperuserRequiredMixin.test_func.
superuser_test_func(user) == user.is_superuser

\* test_func of AgencyOwnerRequiredMixin, AgencyManagerRequiredMixin and
\* AgencyStaffRequiredMixin, each with its group name.
group_test_func(user, name) == user.is_superuser \/ name \in user.groups

\* The messages framework's queue of a request: what earlier requests left
\* for the user to read.
Queues == {<< >>, <<"profile saved">>}

\* messages.error on a storage that was (list(storage)) or was not iterated
\* first: iterating marks the loaded messages used, so only the new one is
\* stored with the response.
messages_error(queued, cleared, text) ==
    IF cleared THEN <<text>> ELSE Append(queued, text)

NoPermission == "You do not have permission to access this page."

\* handle_no_permission of each mixin: the route a refused user is sent to
\* and the message queue the response stores.
handle_no_permission(mixin, user, queued) ==
    CASE mixin = "SuperuserRequiredMixin" ->
           [to |-> "accounts:login_view",
            messages |-> messages_error(queued, FALSE, NoPermission)]
      [] mixin \in {"AgencyOwnerRequiredMixin", "AgencyManagerRequiredMixin",
                    "AgencyStaffRequiredMixin"} ->
           [to |-> "home:home",
            messages |-> messages_error(queued, FALSE,
                           IF mixin = "AgencyStaffRequiredMixin"
                           THEN "You must be an Agency Staff member to access this page."
                           ELSE NoPermission)]
      [] mixin = "SubscriptionRequiredMixin" ->
           IF ~user.is_authenticated
           THEN [to |-> "accounts:login_view",
                 messages |-> messages_error(queued, TRUE,
                                "You must be logged in to access this page.")]
           ELSE [to |-> "subscriptions:subscription_home",
                 messages |-> messages_error(queued, TRUE,
                   "You do not have the necessary subscription to access this page.")]
      [] mixin = "FeatureRequiredMixin" ->
           IF ~user.is_authenticated
           THEN [to |-> "accounts:login_view",
                 messages |-> messages_error(queued, FALSE,
                                "You must be logged in to access this page.")]
           ELSE [to |-> "subscriptions:subscription_home",
                 messages |-> messages_error(queued, FALSE,
                   "You do not have the necessary subscription to access this feature.")]

\* UserPassesTestMixin.dispatch: the view is served if test_func passes,
\* handle_no_permission answers otherwise.
Gate(mixin, user, required_features, queued, passed) ==
    LET refusal == handle_no_permission(mixin, user, queued)
    IN  [type |-> mixin, status |-> IF passed THEN 200 ELSE 302, handler |-> mixin,
         returned |-> 0, outcome |-> IF passed THEN "served" ELSE refusal.to,
         log |-> None, user |-> user, required_features |-> required_features,
         queued |-> queued,
         messages |-> IF passed THEN queued ELSE refusal.messages]

SuperuserGate ==
    /\ request = Idle
    /\ \E user \in RoleUsers, queued \in Queues :
          response' = Gate("SuperuserRequiredMixin", user, {}, queued,
                           superuser_test_func(user))
    /\ UNCHANGED <<shifts, assignments, agencies, plans, subscriptions, inflight, now, stripe, request>>

AgencyOwnerGate ==
    /\ request = Idle
    /\ \E user \in RoleUsers, queued \in Queues :
          response' = Gate("AgencyOwnerRequiredMixin", user, {}, queued,
                           group_test_func(user, "Agency Owners"))
    /\ UNCHANGED <<shifts, assignments, agencies, plans, subscriptions, inflight, now, stripe, request>>

AgencyManagerGate ==
    /\ request = Idle
    /\ \E user \in RoleUsers, queued \in Queues :
          response' = Gate("AgencyManagerRequiredMixin", user, {}, queued,
                           group_test_func(user, "Agency Managers"))
    /\ UNCHANGED <<shifts, assignments, agencies, plans, subscriptions, inflight, now, stripe, request>>

AgencyStaffGate ==
    /\ request = Idle
    /\ \E user \in RoleUsers, queued \in Queues :
          response' = Gate("AgencyStaffRequiredMixin", user, {}, queued,
                           group_test_func(user, "Agency Staff"))
    /\ UNCHANGED <<shifts, assignments, agencies, plans, subscriptions, inflight, now, stripe, request>>

SubscriptionGate ==
    /\ request = Idle
    /\ \E user \in GateUsers, required_features \in RequiredFeatures,
          queued \in Queues :
          response' = Gate("SubscriptionRequiredMixin", user, required_features,
                           queued,
                           subscription_test_func(subscriptions, plans, user,
                                                  required_features))
    /\ UNCHANGED <<shifts, assignments, agencies, plans, subscriptions, inflight, now, stripe, request>>

FeatureGate ==
    /\ request = Idle
    /\ \E user \in GateUsers, required_features \in RequiredFeatures,
          queued \in Queues :
          response' = Gate("FeatureRequiredMixin", user, required_features, queued,
                           feature_test_func(user, required_features))
    /\ UNCHANGED <<shifts, assignments, agencies, plans, subscriptions, inflight, now, stripe, request>>

\* The Plans of a database with their feature flags: the first Plan has none
\* or one of them, the second has every one.
FeaturedPlans ==
    {{[id |-> p.id, stripe_price_id |-> p.stripe_price_id, price |-> p.price,
       is_active |-> p.is_active,
       features |-> IF p.id = "p1" THEN fs ELSE Features] : p \in InitPlans} :
        fs \in {{}, {"shift_management"}}}

\* The Subscription rows of the first agency on such a database: on either
\* Plan, active or not, with a period that ends now or later.
GatedRows(pls) ==
    {row \in StoredRows(pls) : row.current_period_end >= MaxTime + 1}

\* Databases a gated view is asked on: the first agency has no Subscription
\* or one.
InitAccess ==
    /\ agencies = InitAgencies
    /\ shifts = {}
    /\ assignments = {}
    /\ plans \in FeaturedPlans
    /\ subscriptions \in {<< >>} \cup {<<row>> : row \in GatedRows(plans)}
    /\ inflight = [w \in Workers |-> Idle]
    /\ response = NoResponse
    /\ now = MaxTime + 1
    /\ stripe = InitStripe
    /\ request = Idle

NextAccess ==
    \/ SuperuserGate
    \/ AgencyOwnerGate
    \/ AgencyManagerGate
    \/ AgencyStaffGate
    \/ SubscriptionGate
    \/ FeatureGate

SpecAccess == InitAccess /\ [][NextAccess]_vars

\* Agency tables in which the first agency has, or lacks, the provider
\* customer id the signal handler should have stored.
CustomerTables ==
    {{[id |-> a.id,
       stripe_customer_id |-> IF a.id = "a1" /\ ~held THEN None
                              ELSE a.stripe_customer_id] : a \in InitAgencies} :
        held \in BOOLEAN}

\* Databases the interactive views are asked on: the first agency has no
\* Subscription or one, active or not.
InitForms ==
    /\ agencies \in CustomerTables
    /\ shifts = {}
    /\ assignments = {}
    /\ plans = InitPlans
    /\ subscriptions \in {<< >>} \cup {<<row>> : row \in StoredRows(plans)}
    /\ inflight = [w \in Workers |-> Idle]
    /\ response = NoResponse
    /\ now = MaxTime + 1
    /\ stripe = InitStripe
    /\ request = Idle

\* The interactive views asked by every kind of user, one request at a time.
NextForms ==
    \/ SubscribeGet(Users)
    \/ UpdatePaymentGet(Users)
    \/ ManageGet
    \/ ChangeBegin(Users, {"upgrade", "downgrade"}, PlanIds)
    \/ ChangeRetrieve
    \/ ChangeModify
    \/ ChangeSave
    \/ CancelBegin(Users)
    \/ CancelList
    \/ CancelDelete
    \/ CancelLocal

SpecForms == InitForms /\ [][NextForms]_vars

---------------------------------------------------------------------------
(* Shifts (shifts/models.py) *)

\* The value of a TimeField(null=True): 0 is None, every other value a time
\* of day (a datetime.time is truthy, midnight included).
TimesOfDay == 0..MaxClock

\* The names bound in the module's namespace by its imports and its class.
ModuleNames == {"models", "MinValueValidator", "MaxValueValidator", "timezone",
                "geodesic", "Shift"}

\* Evaluating `raise name(...)`: the named exception if the module binds the
\* name, NameError if it does not.
raise(name) == IF name \in ModuleNames THEN name ELSE "NameError"

\* Shift.clean: the exception it ends with, None when it returns.
clean(start_time, end_time) ==
    IF end_time # 0 /\ start_time # 0 /\ end_time <= start_time
    THEN raise("ValidationError")
    ELSE None

\* A Shift is validated.
ShiftClean ==
    /\ request = Idle
    /\ \E start_time \in TimesOfDay, end_time \in TimesOfDay :
          response' = [type |-> "Shift.clean", status |-> 0, handler |-> "clean",
                       returned |-> 0, outcome |-> clean(start_time, end_time),
                       log |-> None, start_time |-> start_time,
                       end_time |-> end_time]
    /\ UNCHANGED <<shifts, assignments, agencies, plans, subscriptions, inflight, now, stripe, request>>

\* The value of a FloatField(null=True): << >> is None, <<d>> the number d
\* of degrees.
Coordinates == {<< >>, <<0>>, <<1>>}

\* The truth value Python gives a coordinate in a condition: None and 0.0
\* are false, every other number is true.
bool(coordinate) == coordinate # << >> /\ coordinate[1] # 0

\* Shift.calculate_distance: "miles" when it returns the geodesic distance
\* of the two locations, None when it returns None.
calculate_distance(latitude, longitude, worker_latitude, worker_longitude) ==
    IF /\ bool(latitude)
       /\ bool(longitude)
       /\ bool(worker_latitude)
       /\ bool(worker_longitude)
    THEN "miles"
    ELSE None

\* The distance of a worker to a Shift is asked for.
ShiftCalculateDistance ==
    /\ request = Idle
    /\ \E latitude \in Coordinates, longitude \in Coordinates,
          worker_latitude \in Coordinates, worker_longitude \in Coordinates :
          response' = [type |-> "Shift.calculate_distance", status |-> 0,
                       handler |-> "calculate_distance", returned |-> 0,
                       outcome |-> calculate_distance(latitude, longitude,
                                                      worker_latitude,
                                                      worker_longitude),
                       log |-> None, latitude |-> latitude,
                       longitude |-> longitude,
                       worker_latitude |-> worker_latitude,
                       worker_longitude |-> worker_longitude]
    /\ UNCHANGED <<shifts, assignments, agencies, plans, subscriptions, inflight, now, stripe, request>>

NextShifts ==
    \/ ShiftClean
    \/ ShiftCalculateDistance

SpecShifts == Init /\ [][NextShifts]_vars

\* Events the provider may deliver late or again: about the subscriptions of
\* both agencies, at one provider time, the subscription having ended or not
\* when the handler asks for it.
Redelivered ==
    [ids |-> {"sub_1", "sub_2", "sub_3"}, sids |-> {"sub_1", "sub_2", "sub_3"},
     starts |-> {1}, ends |-> {0, MaxTime + 2}, statuses |-> AnyProviderStatus]

\* The events that write a Subscription, delivered one after the other.
NextEvents ==
    \/ PostCheckoutCompleted(Redelivered)
    \/ PostSubscriptionDeleted(Redelivered)
    \/ PostSubscriptionUpdated(Redelivered)

SpecEvents == Init /\ [][NextEvents]_vars

\* Provider states a cancel request may meet: each subscription is reported
\* with status 'active' (and listed by list(status='active')) or with
\* another status, 'trialing' or 'past_due' (and not listed).
CancelProviders ==
    {[s \in DOMAIN InitStripe |-> [active |-> s \in listed, price |-> InitStripe[s].price]] :
        listed \in SUBSET DOMAIN InitStripe}

\* The row the checkout handler stored for the first agency's subscription
\* s, the provider reporting status st.
CheckedOut(s, st) ==
    new_subscription("a1", "p1", [customer |-> "cus_1", subscription |-> s],
                     [error |-> FALSE, price |-> "price_1", status |-> st,
                      current_period_start |-> 1, current_period_end |-> 2])

\* Databases a cancel request is made on: the first agency has no
\* Subscription, or the one a checkout stored, with the provider's status.
InitCancel ==
    /\ agencies = InitAgencies
    /\ shifts = {}
    /\ assignments = {}
    /\ plans = InitPlans
    /\ stripe \in CancelProviders
    /\ subscriptions \in
          {<< >>} \cup
          {<<CheckedOut(s, st)>> :
              s \in {"sub_1", "sub_2"},
              st \in {"active", "trialing", "past_due"}}
    /\ \A i \in DOMAIN subscriptions :
          stripe[subscriptions[i].stripe_subscription_id].active
             <=> subscriptions[i].status = "active"
    /\ inflight = [w \in Workers |-> Idle]
    /\ response = NoResponse
    /\ now = 1
    /\ request = Idle

\* Cancel requests, one at a time.
NextCancel ==
    \/ CancelBegin(Users)
    \/ CancelList
    \/ CancelDelete
    \/ CancelLocal

SpecCancel == InitCancel /\ [][NextCancel]_vars

---------------------------------------------------------------------------
(* The admin of shifts (shifts/admin.py) *)

\* Shift rows of two agencies and one ShiftAssignment for each of them.
ShiftPool ==
    {[id |-> "s1", name |-> "day", agency |-> "a1"],
     [id |-> "s2", name |-> "night", agency |-> "a1"],
     [id |-> "s3", name |-> "day", agency |-> "a2"],
     [id |-> "s4", name |-> "night", agency |-> "a2"]}

AssignmentPool ==
    {[id |-> "as1", worker |-> "ann", shift |-> "s1"],
     [id |-> "as2", worker |-> "bob", shift |-> "s2"],
     [id |-> "as3", worker |-> "ann", shift |-> "s3"],
     [id |-> "as4", worker |-> "bob", shift |-> "s4"]}

\* What may be typed in the admin's search box; the empty term searches
\* nothing.
SearchTerms == {"", "day", "ann", "a2"}

\* shift.agency of a ShiftAssignment.
shift__agency(shs, assignment) ==
    (CHOOSE sh \in shs : sh.id = assignment.shift).agency

shift__name(shs, assignment) ==
    (CHOOSE sh \in shs : sh.id = assignment.shift).name

\* hasattr(request.user, 'profile') and request.user.profile.agency.
has_agency(user) == user.profile /\ user.agency # None

ShiftAdmin_get_queryset_Unfiltered(qs, user) == qs

\* ShiftAdmin.get_queryset, qs being every Shift row.
ShiftAdmin_get_queryset(qs, user) ==
    IF user.is_superuser THEN qs
    ELSE IF has_agency(user) THEN {sh \in qs : sh.agency = user.agency}
    ELSE {}

\* ModelAdmin.get_search_results with search_fields name, city, postcode.
ShiftAdmin_search_fields(qs, search_term) ==
    IF search_term = "" THEN qs ELSE {sh \in qs : sh.name = search_term}

\* ShiftAdmin.get_search_results.
ShiftAdmin_get_search_results(user, queryset, search_term) ==
    LET found == ShiftAdmin_search_fields(queryset, search_term) IN
    IF ~user.is_superuser /\ has_agency(user)
    THEN {sh \in found : sh.agency = user.agency}
    ELSE found

\* ShiftAssignmentAdmin.get_queryset, qs being every ShiftAssignment row.
ShiftAssignmentAdmin_get_queryset(shs, qs, user) ==
    IF user.is_superuser THEN qs
    ELSE IF has_agency(user)
    THEN {a \in qs : shift__agency(shs, a) = user.agency}
    ELSE {}

\* ModelAdmin.get_search_results with search_fields worker__username,
\* shift__name, shift__agency__name.
ShiftAssignmentAdmin_search_fields(shs, qs, search_term) ==
    IF search_term = "" THEN qs
    ELSE {a \in qs : \/ a.worker = search_term
                     \/ shift__name(shs, a) = search_term
                     \/ shift__agency(shs, a) = search_term}

\* ShiftAssignmentAdmin.get_search_results.
ShiftAssignmentAdmin_get_search_results(shs, user, queryset, search_term) ==
    LET found == ShiftAssignmentAdmin_search_fields(shs, queryset, search_term) IN
    IF ~user.is_superuser /\ has_agency(user)
    THEN {a \in found : shift__agency(shs, a) = user.agency}
    ELSE found

\* What an admin change list showed: the rows, to whom, for which search.
Shown(admin, user, search_term, rows) ==
    [type |-> admin, status |-> 200, handler |-> "changelist_view", returned |-> 0,
     outcome |-> "shown", log |-> None, user |-> user, search_term |-> search_term,
     rows |-> rows]

\* The change list of Shift: get_queryset, then get_search_results on its
\* result.
ShiftChangeList ==
    /\ request = Idle
    /\ \E user \in Users, search_term \in SearchTerms :
          response' = Shown("ShiftAdmin", user, search_term,
                        ShiftAdmin_get_search_results(user,
                            ShiftAdmin_get_queryset(shifts, user), search_term))
    /\ UNCHANGED <<shifts, assignments, agencies, plans, subscriptions, inflight, now, stripe, request>>

\* The change list of ShiftAssignment.
ShiftAssignmentChangeList ==
    /\ request = Idle
    /\ \E user \in Users, search_term \in SearchTerms :
          response' = Shown("ShiftAssignmentAdmin", user, search_term,
                        ShiftAssignmentAdmin_get_search_results(shifts, user,
                            ShiftAssignmentAdmin_get_queryset(shifts, assignments, user),
                            search_term))
    /\ UNCHANGED <<shifts, assignments, agencies, plans, subscriptions, inflight, now, stripe, request>>

\* Databases the admin is opened on: any of the Shift rows, and any of the
\* ShiftAssignment rows of those.
InitAdmin ==
    /\ agencies = InitAgencies
    /\ shifts \in SUBSET ShiftPool
    /\ assignments \in SUBSET {a \in AssignmentPool : \E sh \in shifts : sh.id = a.shift}
    /\ plans = InitPlans
    /\ subscriptions = << >>
    /\ inflight = [w \in Workers |-> Idle]
    /\ response = NoResponse
    /\ now = 1
    /\ stripe = InitStripe
    /\ request = Idle

NextAdmin ==
    \/ ShiftChangeList
    \/ ShiftAssignmentChangeList

SpecAdmin == InitAdmin /\ [][NextAdmin]_vars

---------------------------------------------------------------------------
(* Properties *)

Checkout == Verified("checkout.session.completed")
Deleted == Verified("customer.subscription.deleted")
Updated == Verified("customer.subscription.updated")

\* What post() would do to the current database with the given event.
Posted(req, object, retrieved) ==
    post(agencies, plans, subscriptions, req, object, retrieved)

CustomerKnown(customer) == \E a \in agencies : a.stripe_customer_id = customer
PriceKnown(price) == \E p \in plans : p.stripe_price_id = price
AgencyOf(customer) == (CHOOSE a \in agencies : a.stripe_customer_id = customer).id
PlanOf(price) == (CHOOSE p \in plans : p.stripe_price_id = price).id
RowsOf(agency_id) == {i \in DOMAIN subscriptions : subscriptions[i].agency = agency_id}
RowsWith(sid) ==
    {i \in DOMAIN subscriptions : subscriptions[i].stripe_subscription_id = sid}

\* C1: a checkout-completed event whose customer id matches no Agency, whose
\* price id matches no Plan, or whose Subscription fails validation is
\* answered with HTTP 400.
C1_LookupMissAnswers400 ==
    (/\ response.type = "checkout.session.completed"
     /\ response.outcome \in {"Agency.DoesNotExist", "Plan.DoesNotExist", "ValidationError"})
        => response.status = 400

\* C2: in every reachable state, whatever the interleaving of the requests,
\* each Agency has at most one Subscription row.
C2_OneSubscriptionPerAgency ==
    \A a \in agencies : Cardinality(RowsOf(a.id)) <= 1

\* Two checkouts of one Agency raced, and the second insert was refused.
C2_RaceRefused ==
    /\ response.type = "checkout.session.completed"
    /\ response.outcome = "ValidationError"
    /\ Len(subscriptions) = 1

C5_DeletedDeactivatesOnlyThatRow ==
    \A object \in DeletedObjects(Wide) :
        RowsWith(object.id) # {}
        => LET pk == CHOOSE i \in RowsWith(object.id) : TRUE
               old == subscriptions[pk]
           IN Posted(Deleted, object, StripeError).subs =
               [subscriptions EXCEPT ![pk] =
                      [agency |-> old.agency,
                       plan |-> old.plan,
                       stripe_subscription_id |-> old.stripe_subscription_id,
                       is_active |-> FALSE,
                       status |-> "canceled",
                       current_period_start |-> old.current_period_start,
                       current_period_end |-> old.current_period_end,
                       is_expired |-> old.is_expired]]

\* A deletion canceled one row while another row is still active.
C5_CanceledBesideActive ==
    /\ response.type = "customer.subscription.deleted"
    /\ response.outcome = "updated"
    /\ \E i, j \in DOMAIN subscriptions :
          /\ ~subscriptions[i].is_active
          /\ subscriptions[i].status = "canceled"
          /\ subscriptions[j].is_active

\* C6: a subscription-updated event whose price id matches no Plan persists
\* nothing, and an error is logged.
C6_UnknownPlanWritesNothing ==
    \A object \in SubscriptionObjects(Wide) :
        ~PriceKnown(object.price)
        => LET done == Posted(Updated, object, StripeError) IN
           /\ done.subs = subscriptions
           /\ done.response.log = "error"

\* An update for a local row named an unknown price.
C6_UnknownPlanSeen ==
    /\ response.type = "customer.subscription.updated"
    /\ response.outcome = "Plan.DoesNotExist"
    /\ subscriptions # << >>

HandledTypes ==
    {"checkout.session.completed", "invoice.paid",
     "customer.subscription.deleted", "customer.subscription.updated"}

\* C8: a verified event of a type other than the four handled ones is
\* answered with HTTP 200 and changes no Subscription, Plan or Agency.
C8_UnhandledTypeAccepted ==
    [][(response'.type # None /\ response'.type \notin HandledTypes)
         => (/\ response'.status = 200
             /\ UNCHANGED <<shifts, assignments, agencies, plans, subscriptions>>)]_vars

\* An event of an unhandled type arrived while rows exist.
C8_UnhandledSeen ==
    /\ response.type = "customer.created"
    /\ response.outcome = "unhandled"
    /\ Len(subscriptions) = 2

\* C9: a request whose payload is malformed or whose signature fails is
\* answered with HTTP 400, reaches no handler and changes no row, whatever
\* event it names.
C9_UnverifiedRejected ==
    \A req \in Requests :
        (~req.sigOk \/ ~req.payloadOk)
        => \A object \in Objects(req.type, Wide), retrieved \in Retrievals(req.type, Wide) :
              LET done == Posted(req, object, retrieved) IN
              /\ done.response.status = 400
              /\ done.response.handler = None
              /\ done.subs = subscriptions

\* A request was rejected while rows exist.
C9_RejectedSeen ==
    /\ response.status = 400
    /\ response.outcome \in {"SignatureVerificationError", "ValueError"}
    /\ Len(subscriptions) = 2

\* C10: an event that misses a lookup (checkout-completed with an unknown
\* customer id or price id; subscription-updated or -deleted with an id no
\* row has) leaves every row as it was; the handlers read nothing but the
\* database and the event, so the next event is processed as if the failed
\* one had not arrived.
C10_LookupMissChangesNothing ==
    /\ \A session \in CheckoutSessions(Wide), retrieved \in StripeSubscriptions(Wide) :
          (~CustomerKnown(session.customer) \/ ~PriceKnown(retrieved.price))
          => Posted(Checkout, session, retrieved).subs = subscriptions
    /\ \A object \in SubscriptionObjects(Wide) :
          RowsWith(object.id) = {}
          => Posted(Updated, object, StripeError).subs = subscriptions
    /\ \A object \in DeletedObjects(Wide) :
          RowsWith(object.id) = {}
          => Posted(Deleted, object, StripeError).subs = subscriptions

\* A lookup missed while rows exist.
C10_MissSeen ==
    /\ response.outcome \in
          {"Agency.DoesNotExist", "Plan.DoesNotExist", "Subscription.DoesNotExist"}
    /\ response.type \in {"checkout.session.completed", "customer.subscription.deleted"}
    /\ subscriptions # << >>

\* The price of the Plan a Subscription row refers to.
PriceOfPlan(plan_id) == (CHOOSE p \in plans : p.id = plan_id).price

\* A step of an upgrade or downgrade request that changes the provider's
\* subscription or a local row.
ChangeWrites ==
    /\ request.kind = "change"
    /\ stripe' # stripe \/ subscriptions' # subscriptions

\* C11: an upgrade or downgrade request changes the provider's subscription
\* and the local Plan reference only when the Agency's Subscription row is
\* active and its current_period_end is later than now.
C11_ChangeNeedsActiveSubscription ==
    [][ChangeWrites
       => /\ subscriptions[request.pk].is_active
          /\ subscriptions[request.pk].current_period_end > now]_vars

\* C12: the Plan a successful upgrade or downgrade request writes is one of
\* the candidates get_context_data offers for that change type: active and
\* priced strictly above (upgrade) or below (downgrade) the current Plan.
C12_AppliedPlanIsCandidate ==
    [][(request.kind = "change" /\ request.step = "save"
          /\ response'.outcome = "updated")
       => \E p \in candidates(plans, PriceOfPlan(request.row.plan), request.type) :
             p.id = request.plan]_vars

\* The candidates a change form offered, against the Plans of the database:
\* the active ones priced above (upgrade) or below (downgrade) the current
\* Plan, each once, every adjacent pair in the order `before`.
Offered(before(_, _)) ==
    response.outcome = "offered"
    => LET l == response.context.available_plans
           P == PriceOfPlan(response.context.current_plan[1])
       IN /\ {l[i] : i \in DOMAIN l} =
                 {p \in plans : /\ p.is_active
                                /\ IF response.type = "upgrade"
                                   THEN p.price > P ELSE p.price < P}
          /\ \A i, j \in DOMAIN l : i # j => l[i] # l[j]
          /\ \A i \in 1..(Len(l) - 1) :
                IF response.type = "upgrade"
                THEN before(l[i].price, l[i + 1].price)
                ELSE before(l[i + 1].price, l[i].price)

\* C13 as stated: the upgrade candidates are exactly the active Plans priced
\* above the current Plan, in strictly ascending price order, and the
\* downgrade candidates exactly the active Plans priced below it, in strictly
\* descending price order.
C13_CandidatesStrictlyOrdered == Offered(LAMBDA x, y : x < y)

\* C13 as amended: the same candidates, in ascending (upgrade) or descending
\* (downgrade) price order, candidates of equal price being adjacent.
C13_CandidatesOrdered == Offered(LAMBDA x, y : x <= y)

\* An upgrade form offered three Plans, two of them at the same price.
C13_TiedCandidatesOffered ==
    /\ response.outcome = "offered"
    /\ response.type = "upgrade"
    /\ Len(response.context.available_plans) = 3
    /\ \E i \in 1..2 : response.context.available_plans[i].price =
                          response.context.available_plans[i + 1].price

\* C14: in an upgrade or downgrade request the provider has swapped the
\* subscription to the new price before the local Plan reference is written;
\* when the provider's retrieve or modify call fails no row changes and the
\* user is redirected with an error.
C14_ProviderSwapBeforeLocalPlan ==
    [][request.kind = "change"
       => /\ (\/ subscriptions' # subscriptions
              \/ request' = Idle /\ response'.outcome = "updated")
             => /\ stripe[request.row.stripe_subscription_id].price = request.price
                /\ stripe' = stripe
                /\ subscriptions'[request.pk].plan = request.plan
          /\ (request' = Idle /\ response'.outcome = "StripeError")
             => /\ subscriptions' = subscriptions
                /\ response'.status = 302
                /\ response'.log = "error"]_vars

\* An upgrade moved the provider's sub_1 to price_2 and then the row to p2.
C14_SwappedThenSaved ==
    /\ response.type = "upgrade"
    /\ response.outcome = "updated"
    /\ stripe["sub_1"].price = "price_2"
    /\ \E i \in DOMAIN subscriptions :
          /\ subscriptions[i].stripe_subscription_id = "sub_1"
          /\ subscriptions[i].plan = "p2"

\* C15: a cancel request that ends well has deleted every active provider
\* subscription of the Agency's customer id; the local row of each one
\* deleted is left inactive with status "canceled"; a row is deactivated
\* only after its provider subscription was deleted; a provider error ends
\* the request and leaves every row as it was.
C15_CancelDeletesThenDeactivates ==
    [][request.kind = "cancel"
       => /\ (response'.outcome = "cancelled" /\ request' = Idle)
             => \A s \in DOMAIN stripe :
                   Owner(s) = request.customer => ~stripe'[s].active
          /\ request.step = "local"
             => \A i \in ByStripeId(subscriptions, Head(request.todo)) :
                   /\ ~subscriptions'[i].is_active
                   /\ subscriptions'[i].status = "canceled"
          /\ \A i \in DOMAIN subscriptions :
                subscriptions'[i] # subscriptions[i]
                => /\ ~stripe[subscriptions[i].stripe_subscription_id].active
                   /\ subscriptions'[i] =
                         [subscriptions[i] EXCEPT !.is_active = FALSE,
                                                  !.status = "canceled"]
          /\ (request' = Idle /\ response'.outcome = "StripeError")
             => subscriptions' = subscriptions]_vars

\* A cancel deleted both provider subscriptions of the first agency's
\* customer, left the other customer's alone and deactivated the local row.
C15_BothDeletedRowCanceled ==
    /\ response.type = "cancel"
    /\ response.outcome = "cancelled"
    /\ ~stripe["sub_1"].active /\ ~stripe["sub_2"].active /\ stripe["sub_3"].active
    /\ \E i \in DOMAIN subscriptions :
          ~subscriptions[i].is_active /\ subscriptions[i].status = "canceled"

OthersKept(pk) ==
    \A i \in DOMAIN subscriptions : i # pk => subscriptions'[i] = subscriptions[i]

\* C17: when a webhook handler and an upgrade request hold the same row,
\* each save writes the whole row as the saving handler holds it: the stored
\* row is the image of the handler that saved last, whatever was saved
\* between its read and its save.
C17_LastWriterWins ==
    [][/\ \A w \in Workers :
            (inflight[w] # Idle /\ inflight'[w] = Idle /\ subscriptions' # subscriptions)
            => LET pk == IF inflight[w].pk = 0 THEN Len(subscriptions')
                         ELSE inflight[w].pk
               IN subscriptions'[pk] = inflight[w].row /\ OthersKept(pk)
       /\ (request.kind = "change" /\ request.step = "save" /\ request' = Idle)
            => /\ subscriptions'[request.pk] = [request.row EXCEPT !.plan = request.plan]
               /\ OthersKept(request.pk)]_vars

\* A deletion handler read the row on plan p1; the owner's upgrade has since
\* saved plan p2; the handler still holds the image it read.
C17_StaleImageHeld ==
    /\ request = Idle
    /\ response.type = "upgrade"
    /\ response.outcome = "updated"
    /\ \E w \in Workers :
          /\ inflight[w] # Idle
          /\ inflight[w].type = "customer.subscription.deleted"
          /\ inflight[w].row.plan = "p1"
          /\ subscriptions[inflight[w].pk].plan = "p2"

\* C18: a Subscription row is inserted only by the processing of a
\* checkout-completed event, one row at a time: no other event handler and
\* no interactive view adds a row, so an Agency has no Subscription before
\* a checkout-completed event was processed for it.
C18_OnlyCheckoutInserts ==
    [][Len(subscriptions') # Len(subscriptions)
       => /\ Len(subscriptions') = Len(subscriptions) + 1
          /\ response'.type = "checkout.session.completed"
          /\ response'.outcome = "inserted"
          /\ request = Idle]_vars

\* The checkout's row is still the only one after an upgrade was saved and
\* a cancel ended.
C18_OneRowAfterRequests ==
    /\ response.type = "cancel"
    /\ response.outcome = "cancelled"
    /\ Len(subscriptions) = 1
    /\ subscriptions[1].plan = "p2"
    /\ stripe["sub_1"].price = "price_2"

\* C19: no step removes a Subscription row: every row stays, under its
\* primary key and for its Agency; a provider-deleted event and a cancel
\* request only make rows inactive with status "canceled".
C19_RowsNeverRemoved ==
    [][/\ Len(subscriptions') >= Len(subscriptions)
       /\ \A i \in DOMAIN subscriptions :
             /\ subscriptions'[i].agency = subscriptions[i].agency
             /\ (\/ request.kind = "cancel"
                 \/ response'.type = "customer.subscription.deleted")
                => \/ subscriptions'[i] = subscriptions[i]
                   \/ subscriptions'[i] =
                         [subscriptions[i] EXCEPT !.is_active = FALSE,
                                                  !.status = "canceled"]]_vars

\* A provider-deleted event was processed for the canceled row, which is
\* still there, inactive.
C19_CanceledRowKept ==
    /\ response.type = "customer.subscription.deleted"
    /\ response.outcome = "updated"
    /\ Len(subscriptions) = 1
    /\ ~subscriptions[1].is_active
    /\ ~stripe[subscriptions[1].stripe_subscription_id].active

\* C20: a superuser passes SubscriptionRequiredMixin.test_func and
\* FeatureRequiredMixin.test_func for every value of required_features,
\* whatever profile, agency, subscription or features the superuser has:
\* on every database both checks pass for every superuser, and no gate ever
\* answered a superuser with a refusal.
C20_SuperuserPassesGates ==
    /\ \A user \in GateUsers, required_features \in RequiredFeatures :
          user.is_superuser =>
            /\ subscription_test_func(subscriptions, plans, user, required_features)
            /\ feature_test_func(user, required_features)
    /\ (response.type \in {"SubscriptionRequiredMixin", "FeatureRequiredMixin"}
          /\ response.user.is_superuser) => response.outcome = "served"

\* A superuser with no profile, no agency and no feature was served a view
\* requiring every feature, on a database without any Subscription.
C20_BareSuperuserServed ==
    /\ response.type = "SubscriptionRequiredMixin"
    /\ response.user.is_superuser
    /\ ~response.user.profile
    /\ response.user.agency = None
    /\ response.user.subscription_features = {}
    /\ response.required_features = Features
    /\ subscriptions = << >>
    /\ response.outcome = "served"

\* The Plan features of a user's agency's active Subscription: what
\* SubscriptionRequiredMixin resolves a user's features to.
ResolvedPlanFeatures(user) ==
    {feature \in Features :
        \E i \in ByAgency(subscriptions, user.agency) :
            /\ subscriptions[i].is_active
            /\ plan_feature(plans, subscriptions[i].plan, feature)}

\* C21: in the feature-gated access checks an unauthenticated user is denied
\* for every value of required_features, the empty list included, and an
\* authenticated non-superuser is allowed by FeatureRequiredMixin if and only
\* if every required feature is in the user's subscription_features, and by
\* SubscriptionRequiredMixin only if every one is on the Plan of the agency's
\* active Subscription.
C21_FeatureGateDecision ==
    response.type \in {"SubscriptionRequiredMixin", "FeatureRequiredMixin"}
    => LET user == response.user
           served == response.outcome = "served"
       IN  /\ ~user.is_authenticated => ~served
           /\ (user.is_authenticated /\ ~user.is_superuser)
                => IF response.type = "FeatureRequiredMixin"
                   THEN served <=>
                          response.required_features \subseteq user.subscription_features
                   ELSE served =>
                          response.required_features \subseteq ResolvedPlanFeatures(user)

Gates ==
    {"SuperuserRequiredMixin", "AgencyOwnerRequiredMixin",
     "AgencyManagerRequiredMixin", "AgencyStaffRequiredMixin",
     "SubscriptionRequiredMixin", "FeatureRequiredMixin"}

\* C22: whichever access-gate mixin refuses, an unauthenticated user is sent
\* to the login page and an authenticated user to the home page or the
\* subscription-home page, never to the login page.
C22_RefusalRoute ==
    (response.type \in Gates /\ response.outcome # "served")
    => IF response.user.is_authenticated
       THEN response.outcome \in {"home:home", "subscriptions:subscription_home"}
       ELSE response.outcome = "accounts:login_view"

\* C23: when SubscriptionRequiredMixin or FeatureRequiredMixin refuses, the
\* messages queued before the request are discarded and the queue holds
\* exactly the one denial message afterwards.
C23_RefusalClearsMessages ==
    (response.type \in {"SubscriptionRequiredMixin", "FeatureRequiredMixin"}
       /\ response.outcome # "served")
    => /\ Len(response.messages) = 1
       /\ \A i \in DOMAIN response.queued : response.messages[1] # response.queued[i]

\* The interactive subscription handlers, by the name their answers carry.
InteractiveViews == {"subscribe", "cancel", "update_payment", "manage",
                     "upgrade", "downgrade"}

\* C24: an interactive subscription handler that finds the user without a
\* profile answers with a redirect to update-profile, one that finds the
\* profile without an agency with a redirect to create-agency, and the
\* request is answered in its first step, before any provider call, leaving
\* the provider's subscriptions as they were.
C24_MissingPrerequisiteRedirects ==
    [][(/\ request = Idle
        /\ request' = Idle
        /\ response'.type \in InteractiveViews
        /\ response'.outcome \in {"Profile.DoesNotExist", "no agency"})
       => /\ response'.status = 302
          /\ response'.to = IF response'.outcome = "Profile.DoesNotExist"
                            THEN "accounts:update_profile"
                            ELSE "accounts:create_agency"
          /\ stripe' = stripe]_vars

\* C25: validating a Shift with non-null times and end_time <= start_time
\* ends with a ValidationError, not with another exception, and one with
\* end_time after start_time passes.
C25_EndNotAfterStartIsValidationError ==
    (response.type = "Shift.clean" /\ response.start_time # 0 /\ response.end_time # 0)
    => IF response.end_time <= response.start_time
       THEN response.outcome = "ValidationError"
       ELSE response.outcome = None

\* The agency of a row an admin change list showed.
AgencyOfShown(admin, row) ==
    IF admin = "ShiftAdmin" THEN row.agency ELSE shift__agency(shifts, row)

\* C26: the Shift and ShiftAssignment rows the admin lists, with or without
\* a search, for a user who is not a superuser all belong to that user's
\* agency, and are none for a user without a profile or an agency; a
\* superuser is shown every row the search matches, every row when nothing
\* is searched.
C26_AdminShowsOwnAgencyOnly ==
    response.type \in {"ShiftAdmin", "ShiftAssignmentAdmin"}
    => LET user == response.user
           table == IF response.type = "ShiftAdmin" THEN shifts ELSE assignments
       IN  /\ response.rows \subseteq table
           /\ (~user.is_superuser /\ has_agency(user))
                => \A row \in response.rows :
                      AgencyOfShown(response.type, row) = user.agency
           /\ (~user.is_superuser /\ ~has_agency(user)) => response.rows = {}
           /\ (user.is_superuser /\ response.search_term = "")
                => response.rows = table

\* A member of the first agency searched a change list for a term that
\* rows of both agencies match, and was shown rows.
C26_SearchAcrossAgencies ==
    /\ response.type = "ShiftAssignmentAdmin"
    /\ ~response.user.is_superuser
    /\ response.user.agency = "a1"
    /\ response.search_term = "ann"
    /\ \E a \in assignments : a.worker = "ann" /\ shift__agency(shifts, a) = "a2"
    /\ response.rows # {}

\* C27: SubscribeView creates a checkout session only for a user with a
\* profile and an agency who is in the Agency Owners group, for a Plan that
\* exists and is active, when the agency's provider customer id is set and
\* the provider retrieves it, and when the agency has no active Subscription.
C27_CheckoutOnlyWhenEligible ==
    \A user \in Users, plan_id \in PlanIds,
       provider \in [retrieved : BOOLEAN, created : BOOLEAN] :
       process_subscription(agencies, plans, subscriptions, user, plan_id,
                            provider).outcome = "checkout"
       => /\ user.is_authenticated /\ user.profile /\ user.agency # None
          /\ user.owner
          /\ \E p \in plans : p.id = plan_id /\ p.is_active
          /\ CustomerOf(agencies, user) # None
          /\ provider.retrieved
          /\ \A i \in ByAgency(subscriptions, user.agency) :
                ~subscriptions[i].is_active

\* A checkout session was created for the first agency while it held a
\* Subscription row that is no longer active.
C27_CheckoutAfterCancellation ==
    /\ response.type = "subscribe"
    /\ response.outcome = "checkout"
    /\ \E i \in ByAgency(subscriptions, "a1") : ~subscriptions[i].is_active

\* C28: a Subscription row that a subscription-deleted event or a cancel
\* request made inactive (status 'canceled') becomes active again only by
\* the processing of a checkout-completed event: no subscription-updated
\* event, however late, and no upgrade or downgrade request that read the
\* row earlier turns the flag back to true.
C28_CanceledStaysInactive ==
    [][\A i \in DOMAIN subscriptions :
          (/\ subscriptions[i].status = "canceled"
           /\ ~subscriptions[i].is_active
           /\ subscriptions'[i].is_active)
          => \E w \in Workers :
                /\ inflight[w] # Idle
                /\ inflight'[w] = Idle
                /\ inflight[w].type = "checkout.session.completed"]_vars

\* C29: processing the same checkout-completed, subscription-updated or
\* subscription-deleted event a second time, the provider answering as it
\* did the first time, leaves the Subscription rows as the first processing
\* left them, and adds no row.
C29_RedeliveryIdempotent ==
    \A type \in WritingTypes :
    \A object \in Objects(type, Redelivered), retrieved \in Retrievals(type, Redelivered) :
        LET once == Posted(Verified(type), object, retrieved)
            twice == post(agencies, plans, once.subs, Verified(type), object, retrieved)
        IN  /\ twice.subs = once.subs
            /\ Len(twice.subs) = Len(once.subs)

\* A checkout-completed event was processed for an Agency that already had
\* the Subscription the event names: the row was written again, not added.
C29_CheckoutRedelivered ==
    /\ response.type = "checkout.session.completed"
    /\ response.outcome = "updated"
    /\ Len(subscriptions) = 1
    /\ subscriptions[1].stripe_subscription_id = "sub_1"
    /\ subscriptions[1].is_active

\* C30: no stored Subscription row is both active and canceled: a row whose
\* status is 'canceled' has is_active false, whatever events were processed
\* and whatever upgrade, downgrade or cancel requests were served.
C30_CanceledRowsInactive ==
    \A i \in DOMAIN subscriptions :
        subscriptions[i].status = "canceled" => ~subscriptions[i].is_active

\* C31: whenever SubscriptionRequiredMixin.test_func admits a user who is
\* not a superuser, the user's agency has a Subscription that
\* SubscriptionHomeView presents as active (active flag true and
\* current_period_end later than now), and every feature in
\* required_features is enabled on its Plan.
C31_GateAgreesWithPresentation ==
    (/\ response.type = "SubscriptionRequiredMixin"
     /\ response.outcome = "served"
     /\ ~response.user.is_superuser)
    => \E i \in ByAgency(subscriptions, response.user.agency) :
          /\ home_presented(subscriptions[i], now)
          /\ \A feature \in response.required_features :
                plan_feature(plans, subscriptions[i].plan, feature)

\* C32: when a cancel request ends with "Your subscription has been
\* cancelled.", the local Subscription of the user's Agency, if there is
\* one, has active flag false, whatever status the provider reported for it
\* and whether or not the provider listed it as active.
C32_CancelledMeansInactive ==
    [][(/\ request.kind = "cancel"
        /\ request' = Idle
        /\ response'.outcome = "cancelled")
       => \A a \in agencies :
             a.stripe_customer_id = request.customer
             => \A i \in ByAgency(subscriptions', a.id) :
                   ~subscriptions'[i].is_active]_vars

\* C33: Shift.calculate_distance returns a distance when the shift's
\* latitude and longitude and the worker's latitude and longitude are all
\* present, 0 included, and returns None exactly when one of the four is
\* absent.
C33_DistanceWhenAllPresent ==
    response.type = "Shift.calculate_distance"
    => (response.outcome = None
           <=> \/ response.latitude = << >>
               \/ response.longitude = << >>
               \/ response.worker_latitude = << >>
               \/ response.worker_longitude = << >>)

====
